---- MODULE Spec2Model ----
(***************************************************************************)
(* A model of simple-repository-server: the router built by build_router   *)
(* (routers/simple.py), the URL helpers of utils.py and the streaming      *)
(* proxy iterator of _http_response_iterator.py.                           *)
(*                                                                         *)
(* Strings are sequences of one-character strings, so that lower(),        *)
(* split(), removeprefix(), re.sub() and slicing are computed character by *)
(* character, as the code computes them.                                   *)
(***************************************************************************)
EXTENDS Integers, Sequences, FiniteSets, TLC

VARIABLES
    stream_http_resources,  \* build_router's flag, fixed when the router is built
    repo_factory,           \* build_router's repo_factory: "none" | "given"
    root_path,              \* the mount prefix the application is served under
    pc,                     \* "idle" | "received" | "streaming" | "done"
    req,                    \* the request being handled
    lookups,                \* backend operations called while handling req
    resp,                   \* the response the handler produced
    upstream,               \* the upstream GET issued for req, and its answer
    it,                     \* the HttpResponseIterator of req
    delivered,              \* the body chunks delivered to the client so far
    call,                   \* a call of one of the pure functions: arguments and results
    other,                  \* the request of a second task, suspended at an await
    app                     \* the application: its lifespan, http_client and routes

vars == <<stream_http_resources, repo_factory, root_path, pc, req, lookups, resp, upstream, it, delivered,
          call, other, app>>

(***************************************************************************)
(* Bounds of the model.                                                    *)
(***************************************************************************)
\* longest project name a request carries
MaxNameLen == 2
\* most headers a request carries
MaxHeaders == 2
\* most bytes an upstream body has
MaxBody == 3
\* bytes per chunk of aiter_raw: a scaled stand-in for 1024 * 1024
ChunkSize == 2
\* the pulls a consumer makes after the sequence has ended
MaxRepulls == 2
\* the directory segments of the path of a URL handed to url_as_relative
MaxDirs == 2
\* the length of a name handed to canonicalize_name
MaxCanonLen == 3
\* the redirects a client follows before it gives up
MaxRedirects == 3

\* Python's None: a value no string equals
None == <<"None">>

(***************************************************************************)
(* String literals of the source and of its tests.                         *)
(***************************************************************************)
SchemeHttp == <<"h", "t", "t", "p">>
HostH == <<"h">>
SchemeSep == <<":", "/", "/">>
DefaultPrefix == <<"/", "s", "i", "m", "p", "l", "e", "/">>
SnapshotPrefix == <<"/", "s", "n", "a", "p", "s", "h", "o", "t", "/">>
ResourcesPrefix == <<"/", "r", "e", "s", "o", "u", "r", "c", "e", "s", "/">>
MountM == <<"/", "m">>
H_accept == <<"a", "c", "c", "e", "p", "t">>
H_user_agent == <<"u", "s", "e", "r", "-", "a", "g", "e", "n", "t">>
H_accept_encoding == <<"a", "c", "c", "e", "p", "t", "-", "e", "n", "c", "o", "d", "i", "n", "g">>
H_if_unmodified_since == <<"i", "f", "-", "u", "n", "m", "o", "d", "i", "f", "i", "e", "d", "-", "s", "i", "n", "c", "e">>
H_if_range == <<"i", "f", "-", "r", "a", "n", "g", "e">>
H_if_none_match == <<"i", "f", "-", "n", "o", "n", "e", "-", "m", "a", "t", "c", "h">>
H_if_modified_since == <<"i", "f", "-", "m", "o", "d", "i", "f", "i", "e", "d", "-", "s", "i", "n", "c", "e">>
H_if_match == <<"i", "f", "-", "m", "a", "t", "c", "h">>
H_range == <<"r", "a", "n", "g", "e">>
H_referer == <<"r", "e", "f", "e", "r", "e", "r">>
H_authorization == <<"a", "u", "t", "h", "o", "r", "i", "z", "a", "t", "i", "o", "n">>
H_Range_mixed == <<"R", "a", "n", "g", "e">>
H_FOO == <<"F", "O", "O">>
H_ETag == <<"E", "T", "a", "g">>
H_location == <<"l", "o", "c", "a", "t", "i", "o", "n">>
H_content_encoding == <<"c", "o", "n", "t", "e", "n", "t", "-", "e", "n", "c", "o", "d", "i", "n", "g">>
H_my_header == <<"m", "y", "_", "h", "e", "a", "d", "e", "r">>
T_metadata == <<"m", "e", "t", "a", "d", "a", "t", "a">>
T_other == <<"o", "t", "h", "e", "r">>
F_json_v1 == <<"a", "p", "p", "l", "i", "c", "a", "t", "i", "o", "n", "/", "v", "n", "d", ".", "p", "y", "p", "i", ".", "s", "i", "m", "p", "l", "e", ".", "v", "1", "+", "j", "s", "o", "n">>
F_html_v1 == <<"a", "p", "p", "l", "i", "c", "a", "t", "i", "o", "n", "/", "v", "n", "d", ".", "p", "y", "p", "i", ".", "s", "i", "m", "p", "l", "e", ".", "v", "1", "+", "h", "t", "m", "l">>
F_html_legacy == <<"t", "e", "x", "t", "/", "h", "t", "m", "l">>
A_any == <<"*", "/", "*">>
A_pizza == <<"p", "i", "z", "z", "a", "/", "m", "a", "r", "g", "h", "e", "r", "i", "t", "a">>
Q_format_eq == <<"f", "o", "r", "m", "a", "t", "=">>
M_text_plain == <<"t", "e", "x", "t", "/", "p", "l", "a", "i", "n">>
M_octet == <<"a", "p", "p", "l", "i", "c", "a", "t", "i", "o", "n", "/", "o", "c", "t", "e", "t", "-", "s", "t", "r", "e", "a", "m">>
U_my_url == <<"h", "t", "t", "p", ":", "/", "/", "m", "y", "_", "u", "r", "l">>

(***************************************************************************)
(* str methods.                                                            *)
(***************************************************************************)
UpperAlpha == <<"A", "B", "C", "D", "E", "F", "G", "H", "I", "J", "K", "L", "M", "N", "O", "P", "Q", "R", "S", "T", "U", "V", "W", "X", "Y", "Z">>
LowerAlpha == <<"a", "b", "c", "d", "e", "f", "g", "h", "i", "j", "k", "l", "m", "n", "o", "p", "q", "r", "s", "t", "u", "v", "w", "x", "y", "z">>
Digits == {"0", "1", "2", "3", "4", "5", "6", "7", "8", "9"}
Range(s) == {s[i] : i \in DOMAIN s}

\* the lower-case letter of each upper-case letter
LowerOf == [c \in Range(UpperAlpha) |->
               LowerAlpha[CHOOSE i \in DOMAIN UpperAlpha : UpperAlpha[i] = c]]

LowerChar(c) == IF c \in DOMAIN LowerOf THEN LowerOf[c] ELSE c

\* str.lower()
lower(s) == [i \in DOMAIN s |-> LowerChar(s[i])]

\* the index of the first character of s that is in set, 0 when there is none
IndexOf(s, set) ==
    IF \E i \in DOMAIN s : s[i] \in set
    THEN CHOOSE i \in DOMAIN s : s[i] \in set /\ \A j \in 1..(i - 1) : s[j] \notin set
    ELSE 0

\* str.split(sep), sep one character
RECURSIVE split(_, _)
split(s, sep) ==
    LET i == IndexOf(s, {sep})
    IN  IF i = 0 THEN <<s>>
        ELSE <<SubSeq(s, 1, i - 1)>> \o split(SubSeq(s, i + 1, Len(s)), sep)

\* str.removeprefix(p)
removeprefix(s, p) ==
    IF Len(p) <= Len(s) /\ SubSeq(s, 1, Len(p)) = p
    THEN SubSeq(s, Len(p) + 1, Len(s))
    ELSE s

\* str.replace(old, new), old and new one character
replace(s, old, new) == [i \in DOMAIN s |-> IF s[i] = old THEN new ELSE s[i]]

\* s * n
RECURSIVE Repeat(_, _)
Repeat(s, n) == IF n <= 0 THEN <<>> ELSE s \o Repeat(s, n - 1)

\* list[1:-1]
Inner(l) == IF Len(l) <= 1 THEN <<>> ELSE SubSeq(l, 2, Len(l) - 1)

(***************************************************************************)
(* packaging.utils.canonicalize_name:                                      *)
(*     re.sub(r"[-_.]+", "-", name).lower()                                *)
(***************************************************************************)
IsSeparator(c) == c \in {"-", "_", "."}

RECURSIVE CollapseRuns(_)
CollapseRuns(s) ==
    IF s = <<>> THEN <<>>
    ELSE IF IsSeparator(s[1])
         THEN IF Len(s) > 1 /\ IsSeparator(s[2])
              THEN CollapseRuns(Tail(s))
              ELSE <<"-">> \o CollapseRuns(Tail(s))
         ELSE <<s[1]>> \o CollapseRuns(Tail(s))

\* r"[-_.][-_.]?" in place of r"[-_.]+": two separators at a time
RECURSIVE CollapsePairs(_)
CollapsePairs(s) ==
    IF s = <<>> THEN <<>>
    ELSE IF IsSeparator(s[1])
         THEN IF Len(s) > 1 /\ IsSeparator(s[2])
              THEN <<"-">> \o CollapsePairs(Tail(Tail(s)))
              ELSE <<"-">> \o CollapsePairs(Tail(s))
         ELSE <<s[1]>> \o CollapsePairs(Tail(s))

canonicalize_name_pairs(name) == lower(CollapsePairs(name))

canonicalize_name(name) == lower(CollapseRuns(name))

(***************************************************************************)
(* urllib.parse.urlparse, as far as url_as_relative reads its result:      *)
(* scheme, netloc, path (the query and the fragment are split off).        *)
(***************************************************************************)
Letters == Range(UpperAlpha) \cup Range(LowerAlpha)
SchemeChars == Letters \cup Digits \cup {"+", "-", "."}

\* s[:i-1], s[i:] and s[i+1:] for the index i of a delimiter found in s;
\* when there is none (i = 0), all of s is before it
Before(s, i) == IF i = 0 THEN s ELSE SubSeq(s, 1, i - 1)
From(s, i) == IF i = 0 THEN <<>> ELSE SubSeq(s, i, Len(s))
After(s, i) == IF i = 0 THEN <<>> ELSE SubSeq(s, i + 1, Len(s))

\* url[:c-1] is a scheme: c is the index of the first ":"
HasScheme(url, c) ==
    /\ c > 1
    /\ url[1] \in Letters
    /\ \A j \in 1..(c - 1) : url[j] \in SchemeChars

SchemeOf(url, c) == IF HasScheme(url, c) THEN lower(Before(url, c)) ELSE <<>>

AfterScheme(url, c) == IF HasScheme(url, c) THEN After(url, c) ELSE url

HasNetloc(rest) == Len(rest) >= 2 /\ rest[1] = "/" /\ rest[2] = "/"

\* the netloc ends at the first "/", "?" or "#"
NetlocOf(rest) ==
    IF HasNetloc(rest)
    THEN Before(From(rest, 3), IndexOf(From(rest, 3), {"/", "?", "#"}))
    ELSE <<>>

AfterNetloc(rest) ==
    IF HasNetloc(rest)
    THEN From(From(rest, 3), IndexOf(From(rest, 3), {"/", "?", "#"}))
    ELSE rest

NoFragment(rest) == Before(rest, IndexOf(rest, {"#"}))

UrlParts(scheme, netloc, rest) ==
    [scheme |-> scheme,
     netloc |-> netloc,
     path   |-> Before(rest, IndexOf(rest, {"?"})),
     query  |-> After(rest, IndexOf(rest, {"?"}))]

UrlAfterScheme(scheme, rest) ==
    UrlParts(scheme, NetlocOf(rest), NoFragment(AfterNetloc(rest)))

urlparse(url) ==
    UrlAfterScheme(SchemeOf(url, IndexOf(url, {":"})), AfterScheme(url, IndexOf(url, {":"})))

(***************************************************************************)
(* utils.url_as_relative.  The result is [ok |-> TRUE, value |-> path] or, *)
(* for the ValueError, [ok |-> FALSE, value |-> <<origin, destination>>].  *)
(***************************************************************************)
\* the loop over zip(destination_path_tokens, origin_path_tokens): the number
\* of leading tokens that are equal
RECURSIVE CommonLen(_, _)
CommonLen(d, o) ==
    IF d = <<>> \/ o = <<>> THEN 0
    ELSE IF d[1] = o[1] THEN 1 + CommonLen(Tail(d), Tail(o)) ELSE 0

\* common_prefix: "/" and then every matched token followed by "/"
RECURSIVE CommonPrefix(_, _)
CommonPrefix(tokens, k) ==
    IF k = 0 THEN <<"/">> ELSE CommonPrefix(tokens, k - 1) \o tokens[k] \o <<"/">>

\* the tokens of a filesystem-style routine: the final segment is a token too
PathTokens_with_last(path) == Tail(split(path, "/"))

\* path.split("/")[1:-1]
PathTokens(path) == Inner(split(path, "/"))

\* "../" * dirs_up + destination_absolute_path.removeprefix(common_prefix)
RelativePath(destination_absolute_path, destination_path_tokens, origin_path_tokens) ==
    Repeat(<<".", ".", "/">>,
           Len(origin_path_tokens) - CommonLen(destination_path_tokens, origin_path_tokens))
    \o removeprefix(destination_absolute_path,
                    CommonPrefix(destination_path_tokens,
                                 CommonLen(destination_path_tokens, origin_path_tokens)))

\* the check of scheme and netloc
\* a check of the scheme alone
CannotRelativize_scheme_only(parsed_destination_url, parsed_origin_url) ==
    \/ parsed_origin_url.scheme # parsed_destination_url.scheme
    \/ parsed_origin_url.scheme \notin {SchemeHttp, SchemeHttp \o <<"s">>}

CannotRelativize(parsed_destination_url, parsed_origin_url) ==
    \/ parsed_origin_url.scheme # parsed_destination_url.scheme
    \/ parsed_origin_url.scheme \notin {SchemeHttp, SchemeHttp \o <<"s">>}
    \/ parsed_origin_url.netloc # parsed_destination_url.netloc

RelativeOrError(destination_absolute_url, origin_absolute_url, parsed_destination_url, parsed_origin_url) ==
    IF CannotRelativize(parsed_destination_url, parsed_origin_url)
    THEN [ok |-> FALSE, value |-> <<origin_absolute_url, destination_absolute_url>>]
    ELSE [ok    |-> TRUE,
          value |-> RelativePath(parsed_destination_url.path,
                                 PathTokens(parsed_destination_url.path),
                                 PathTokens(parsed_origin_url.path))]

url_as_relative(destination_absolute_url, origin_absolute_url) ==
    RelativeOrError(destination_absolute_url, origin_absolute_url,
                    urlparse(destination_absolute_url), urlparse(origin_absolute_url))

(***************************************************************************)
(* Dictionaries (request headers, response headers, contexts) are          *)
(* functions from names to values.                                         *)
(***************************************************************************)
EmptyDict == <<>>

\* dict.get(key), None when the key is absent
Get(d, key) == IF key \in DOMAIN d THEN d[key] ELSE None

\* {k: v for k, v in d.items() if keep(k)}
Restrict(d, keys) == [k \in (DOMAIN d) \cap keys |-> d[k]]

\* every dictionary over at most n of the names, each name with one of its values
DictsOver(values, n) ==
    UNION {[names -> UNION {values[k] : k \in names}] : names \in {ns \in SUBSET (DOMAIN values) : Cardinality(ns) <= n}}

Dicts(values, n) == {d \in DictsOver(values, n) : \A k \in DOMAIN d : d[k] \in values[k]}

(***************************************************************************)
(* hashlib.sha256(text.encode('UTF-8')).hexdigest(), for the texts the     *)
(* backend of the model serves.                                            *)
(***************************************************************************)
Sha256Hex(text) ==
    CASE text = T_metadata ->
           <<"4", "5", "4", "4", "7", "b", "7", "a", "f", "b", "d", "5", "e", "5", "4", "4", "f", "7", "d", "0", "f", "1", "d", "f", "0", "f", "c", "c", "d", "2", "6", "0", "1", "4", "d", "9", "8", "5", "0", "1", "3", "0", "a", "b", "d", "3", "f", "0", "2", "0", "b", "8", "9", "f", "f", "9", "6", "b", "8", "2", "0", "7", "9", "f">>
      [] text = T_other ->
           <<"d", "9", "2", "9", "8", "a", "1", "0", "d", "1", "b", "0", "7", "3", "5", "8", "3", "7", "d", "c", "4", "b", "d", "8", "5", "d", "a", "c", "6", "4", "1", "b", "0", "f", "3", "c", "e", "f", "2", "7", "a", "4", "7", "e", "5", "d", "5", "3", "a", "5", "4", "f", "2", "f", "3", "f", "5", "b", "2", "f", "c", "f", "f", "a">>

\* the number of hexadecimal digits of the digest an ETag keeps
EtagHexLen == 12

\* text_hash = hexdigest()[:12]; etag = f'"{text_hash}"'
TextEtag(text) == <<"\"">> \o SubSeq(Sha256Hex(text), 1, EtagHexLen) \o <<"\"">>

(***************************************************************************)
(* The inputs: what a client sends, what the backend repository returns    *)
(* and what the upstream server answers.                                   *)
(***************************************************************************)
NameAlphabet == {"a", "B", "-", "_"}

RECURSIVE StringsUpTo(_, _)
StringsUpTo(alphabet, n) ==
    IF n = 0 THEN {<<>>}
    ELSE LET shorter == StringsUpTo(alphabet, n - 1)
         IN  shorter \cup {Append(s, c) : s \in shorter, c \in alphabet}

ProjectNames == StringsUpTo(NameAlphabet, MaxNameLen) \ {<<>>}

ResourceName == <<"f">>

\* ETag values of the backend and of the upstream server
E_1 == <<"\"", "e", "1", "\"">>
E_2 == <<"\"", "e", "2", "\"">>
Secret == <<"t", "o", "k">>
V_bytes == <<"b", "y", "t", "e", "s", "=", "0", "-">>

\* the headers of a request that reaches the router: the server hands the
\* names over in lower case
RequestHeaderValues ==
    (H_if_none_match :> {TextEtag(T_metadata), E_1, E_2})
    @@ (H_authorization :> {Secret})
    @@ (H_accept :> {<<>>, A_any, F_json_v1, A_pizza})

\* the list and detail handlers read the Accept header alone
PageRequestHeaders == Dicts(Restrict(RequestHeaderValues, {H_accept}), MaxHeaders)

ResourceRequestHeaders == Dicts(RequestHeaderValues, MaxHeaders)

\* the request_headers of a direct call of create_iterator: any mapping
DirectHeaderValues ==
    (H_Range_mixed :> {V_bytes})
    @@ (H_FOO :> {Secret})
    @@ (H_accept_encoding :> {<<"g", "z", "i", "p">>})
    @@ (H_if_none_match :> {E_1})

DirectHeaders == Dicts(DirectHeaderValues, MaxHeaders)

\* the query strings: none, or a format override as the client writes it,
\* or a format parameter without a value
Queries == {<<>>, Q_format_eq \o F_json_v1, Q_format_eq \o A_pizza, Q_format_eq}

RootPaths == {<<>>, MountM}

(***************************************************************************)
(* The request and the routes.                                             *)
(***************************************************************************)
NoRequest ==
    [endpoint |-> "none", project_name |-> <<>>, resource_name |-> <<>>,
     headers |-> EmptyDict, query |-> <<>>, cutoff_date |-> <<>>]

BaseUrl == SchemeHttp \o SchemeSep \o HostH

\* the prefix of the router with the path parameter of the request filled
\* in: "/simple/", and "/snapshot/{cutoff_date}/" for the router that is
\* built with a repo_factory
prefix ==
    IF repo_factory = "none" THEN DefaultPrefix
    ELSE SnapshotPrefix \o req.cutoff_date \o <<"/">>

\* the path of a route of the router, its path parameters filled in
RoutePath(name, project_name, resource_name) ==
    CASE name = "project_list"        -> prefix
      [] name = "simple_project_page" -> prefix \o project_name \o <<"/">>
      [] name = "resources"           -> ResourcesPrefix \o project_name \o <<"/">> \o resource_name

\* str(request.url)
request_url(request, mount) ==
    BaseUrl \o mount
    \o RoutePath(request.endpoint, request.project_name, request.resource_name)
    \o (IF request.query # <<>> THEN <<"?">> \o request.query ELSE <<>>)

\* str(request.url_for(name, **kwargs))
url_for(mount, name, project_name, resource_name) ==
    BaseUrl \o mount \o RoutePath(name, project_name, resource_name)

relative_url_for(request, mount, name, project_name, resource_name) ==
    url_as_relative(url_for(mount, name, project_name, resource_name),
                    request_url(request, mount))

\* the format query parameter as FastAPI hands it over: parse_qsl turns
\* each "+" of the query string into a space
FormatParam(query) ==
    IF Len(query) >= Len(Q_format_eq) /\ SubSeq(query, 1, Len(Q_format_eq)) = Q_format_eq
    THEN replace(removeprefix(query, Q_format_eq), "+", " ")
    ELSE None

(***************************************************************************)
(* Content negotiation.                                                    *)
(***************************************************************************)
SupportedFormats == {F_json_v1, F_html_v1, F_html_legacy}

RECURSIVE lstrip(_)
lstrip(s) == IF s # <<>> /\ s[1] = " " THEN lstrip(Tail(s)) ELSE s

RECURSIVE rstrip(_)
rstrip(s) == IF s # <<>> /\ s[Len(s)] = " " THEN rstrip(SubSeq(s, 1, Len(s) - 1)) ELSE s

\* the media range of one candidate of an Accept value, its parameters dropped
MediaRange(candidate) == rstrip(lstrip(split(candidate, ";")[1]))

\* the media ranges of an Accept value, in the order it lists them
MediaRanges(content_type) ==
    [i \in DOMAIN split(content_type, ",") |-> MediaRange(split(content_type, ",")[i])]

\* the index of the first range that names a supported format, 0 when none does
FirstSupported(ranges) ==
    IF \E i \in DOMAIN ranges : ranges[i] \in SupportedFormats \cup {A_any}
    THEN CHOOSE i \in DOMAIN ranges :
            /\ ranges[i] \in SupportedFormats \cup {A_any}
            /\ \A j \in 1..(i - 1) : ranges[j] \notin SupportedFormats \cup {A_any}
    ELSE 0

SelectFormat(content_type, ranges, first) ==
    IF content_type = <<>> THEN [ok |-> TRUE, value |-> F_html_v1]
    ELSE IF first = 0 THEN [ok |-> FALSE, value |-> content_type]
    ELSE [ok |-> TRUE, value |-> IF ranges[first] = A_any THEN F_html_v1 ELSE ranges[first]]

\* content_negotiation.select_response_format
select_response_format(content_type) ==
    SelectFormat(content_type, MediaRanges(content_type),
                 FirstSupported(MediaRanges(content_type)))

\* the override added to the Accept value as one more candidate
RequestedFormat_merged(format, accept) ==
    IF format # None /\ format # <<>>
    THEN IF accept # None
         THEN accept \o <<",">> \o replace(format, " ", "+")
         ELSE replace(format, " ", "+")
    ELSE IF accept # None THEN accept ELSE <<>>

\* the value get_response_format negotiates on
RequestedFormat(format, accept) ==
    IF format # None /\ format # <<>>
    THEN replace(format, " ", "+")
    ELSE IF accept # None THEN accept ELSE <<>>

requested_format(request) ==
    RequestedFormat(FormatParam(request.query), Get(request.headers, H_accept))

get_response_format(request) == select_response_format(requested_format(request))

(***************************************************************************)
(* Responses.                                                              *)
(***************************************************************************)
NoBody == [kind |-> "empty", data |-> <<>>]

NoResponse == [status |-> 0, headers |-> EmptyDict, media_type |-> None, body |-> NoBody]

Response(status, headers, media_type, body) ==
    [status |-> status, headers |-> headers, media_type |-> media_type, body |-> body]

\* raise HTTPException(status, detail, headers): FastAPI answers with the
\* detail as a JSON body, and with no body where the status allows none
HTTPException(status, detail, headers) ==
    IF status \in {204, 304}
    THEN Response(status, headers, None, NoBody)
    ELSE Response(status, headers, None, [kind |-> "detail", data |-> detail])

\* RedirectResponse(url, status_code)
RedirectResponse(url, status) ==
    Response(status, (H_location :> url), None, NoBody)

\* an exception no handler catches: the server answers 500
ServerError(what) ==
    Response(500, EmptyDict, None, [kind |-> "error", data |-> what])

(***************************************************************************)
(* The backend repository (an external collaborator): what its operations  *)
(* may answer.                                                             *)
(***************************************************************************)
K_etag == <<"e", "t", "a", "g">>
P_file == <<"/", "d", "/", "f">>

File(filename, url) == [filename |-> filename, url |-> url, hashes |-> EmptyDict, size |-> 1]

\* the message of an error of get_resource
ErrorText == <<"g", "o", "n", "e">>

\* the files of a page of the backend: their URLs are whatever the backend
\* has, absolute or not
PageFiles ==
    {<<>>,
     <<File(ResourceName, U_my_url)>>,
     <<File(<<"g">>, <<".", ".", "/", "x">>), File(ResourceName, U_my_url)>>}

\* get_project_page(project_name): a page, or PackageNotFoundError
ProjectPageAnswers(project_name) ==
    {[kind |-> "ProjectDetail", name |-> project_name, files |-> fs] : fs \in PageFiles}
    \cup {[kind |-> "PackageNotFoundError", name |-> project_name, files |-> <<>>]}

\* get_resource(project_name, resource_name, request_context): one of the
\* Resource variants, a value that is none of them, or one of the two errors
ResourceAnswers ==
    {[kind |-> "TextResource", text |-> t, url |-> <<>>, path |-> <<>>, context |-> EmptyDict] :
        t \in {T_metadata, T_other}}
    \cup {[kind |-> "LocalResource", text |-> <<>>, url |-> <<>>, path |-> P_file, context |-> c] :
        c \in {EmptyDict, (K_etag :> E_1)}}
    \cup {[kind |-> k, text |-> <<>>, url |-> IF k = "HttpResource" THEN U_my_url ELSE <<>>,
           path |-> <<>>, context |-> EmptyDict] :
        k \in {"HttpResource", "OtherResource"}}
    \cup {[kind |-> k, text |-> ErrorText, url |-> <<>>, path |-> <<>>, context |-> EmptyDict] :
        k \in {"ResourceUnavailable", "InvalidPackageError"}}

\* str(e) of an error of the backend: the message it was raised with, which
\* for PackageNotFoundError names the package
str(e) == IF e.kind = "PackageNotFoundError" THEN e.name ELSE e.text

\* the repository build_router is given for the resources
resource_repository == [from |-> "resource_repository", cutoff_date |-> <<>>]

\* the repository a given repo_factory returns: FastAPI calls the factory
\* for the request, with the path parameters of the prefix it asks for
FactoryRepository(request) == [from |-> "repo_factory", cutoff_date |-> request.cutoff_date]

\* a router whose simple endpoints ignore the factory
Depends_repo_factory_unused(request) == resource_repository

\* Depends(repo_factory): the default factory returns resource_repository
Depends_repo_factory(request) ==
    IF repo_factory = "none" THEN resource_repository ELSE FactoryRepository(request)

\* one call of a backend operation: its arguments and what it answered
Lookup(op, project_name, resource_name, request_context, result) ==
    [op |-> op, project_name |-> project_name, resource_name |-> resource_name,
     request_context |-> request_context, result |-> result,
     repository |-> resource_repository]

\* a call of an operation of the repository the simple endpoints depend on
LookupIn(repository, lookup) == [lookup EXCEPT !.repository = repository]

(***************************************************************************)
(* The upstream server (an external collaborator).  A variant is what the  *)
(* server holds at the URL: the status it answers with, its ETag if it has *)
(* one, the content and the content-encoding it sends the content in.  A   *)
(* server with an ETag honours If-None-Match.                              *)
(***************************************************************************)
Gzip == <<"g", "z", "i", "p">>

\* the content of n bytes: 1, 2, ..., n
Content(n) == [i \in 1..n |-> i]

\* the bytes on the wire: a gzip stream is its magic byte, then the payload
Encode(encoding, content) == IF encoding = Gzip THEN <<0>> \o content ELSE content

\* the content decoding of httpx's aiter_bytes
Decode(encoding, wire) == IF encoding = Gzip /\ wire # <<>> THEN Tail(wire) ELSE wire

DecimalDigits == <<"0", "1", "2", "3", "4", "5", "6", "7", "8", "9">>

\* str(n), n < 10
Str(n) == <<DecimalDigits[n + 1]>>

Variant(status, etag, encoding, n) ==
    [status |-> status, etag |-> etag, encoding |-> encoding, content |-> Content(n)]

\* a plain 200 with a body of every length, and a 201, a gzip-encoded body
\* and a server with an ETag, each with the longest body
UpstreamVariants ==
    {Variant(200, None, None, n) : n \in 0..MaxBody}
    \cup {Variant(201, None, None, MaxBody), Variant(200, None, Gzip, MaxBody),
          Variant(200, E_1, None, MaxBody)}

\* the value of the header a server reads under a case-insensitive name
HeaderValue(headers, name) ==
    IF \E k \in DOMAIN headers : lower(k) = name
    THEN headers[CHOOSE k \in DOMAIN headers : lower(k) = name]
    ELSE None

H_content_length == <<"c", "o", "n", "t", "e", "n", "t", "-", "l", "e", "n", "g", "t", "h">>

\* the headers the upstream server sends with every answer
OwnHeaders(variant) ==
    (H_my_header :> <<"h", "e", "a", "d", "e", "r">>)
    @@ (IF variant.etag # None THEN (lower(H_ETag) :> variant.etag) ELSE EmptyDict)

FullAnswer(variant, wire) ==
    [status   |-> variant.status,
     headers  |-> OwnHeaders(variant)
                  @@ (H_content_length :> Str(Len(wire)))
                  @@ (IF variant.encoding # None
                      THEN (H_content_encoding :> variant.encoding)
                      ELSE EmptyDict),
     wire     |-> wire,
     encoding |-> variant.encoding]

\* the upstream server's answer to GET with these request headers
UpstreamAnswer(variant, headers) ==
    IF variant.etag # None /\ HeaderValue(headers, H_if_none_match) = variant.etag
    THEN [status |-> 304, headers |-> OwnHeaders(variant), wire |-> <<>>, encoding |-> None]
    ELSE FullAnswer(variant, Encode(variant.encoding, variant.content))

NoAnswer == [status |-> 0, headers |-> EmptyDict, wire |-> <<>>, encoding |-> None]

\* no GET was issued
NoUpstream ==
    [gets |-> 0, url |-> <<>>, headers |-> EmptyDict, variant |-> Variant(0, None, None, 0),
     answer |-> NoAnswer]

(***************************************************************************)
(* _http_response_iterator.HttpResponseIterator                            *)
(***************************************************************************)
PROXIED_REQUEST_HEADERS ==
    {H_accept, H_user_agent, H_accept_encoding, H_if_unmodified_since, H_if_range,
     H_if_none_match, H_if_modified_since, H_if_match, H_range, H_referer}

\* a filter that compares the names as they are written, without lower()
ProxiedHeaders_case_sensitive(request_headers) ==
    Restrict(request_headers,
             {header_name \in DOMAIN request_headers :
                 header_name \in PROXIED_REQUEST_HEADERS})

\* headers = {name: value for name, value in request_headers.items()
\*            if name.lower() in cls.PROXIED_REQUEST_HEADERS}
ProxiedHeaders(request_headers) ==
    Restrict(request_headers,
             {header_name \in DOMAIN request_headers :
                 lower(header_name) \in PROXIED_REQUEST_HEADERS})

\* resp.aiter_bytes: the body with its content-encoding decoded
BodyStream_decoded(answer) == Decode(answer.encoding, answer.wire)

\* resp.aiter_raw: the bytes of the body as they are on the wire
BodyStream(answer) == answer.wire

\* one chunk of aiter_raw(chunk_size): chunk_size bytes, or what is left
NextChunk(remaining) ==
    SubSeq(remaining, 1, IF Len(remaining) < ChunkSize THEN Len(remaining) ELSE ChunkSize)

\* reads counts the chunks the generator took from resp.aiter_raw, pulls the
\* __anext__ calls of the consumer (the one of create_iterator apart)
NoIterator ==
    [state |-> "none", url |-> <<>>, status_code |-> 0, headers |-> EmptyDict,
     remaining |-> <<>>, conn |-> "none", reads |-> 0, pulls |-> 0]

\* the GET that agenerator issues: http_client.stream("GET", url, headers=headers)
UpstreamGet(url, request_headers, variant) ==
    [gets    |-> 1,
     url     |-> url,
     headers |-> ProxiedHeaders(request_headers),
     variant |-> variant,
     answer  |-> UpstreamAnswer(variant, ProxiedHeaders(request_headers))]

\* a generator without the yield b"": the __anext__ of create_iterator runs
\* it up to the first chunk of the body, and create_iterator drops the chunk
IteratorOver_no_sentinel(url, answer) ==
    [state       |-> "open",
     url         |-> url,
     status_code |-> answer.status,
     headers     |-> answer.headers,
     remaining   |-> SubSeq(BodyStream(answer), Len(NextChunk(BodyStream(answer))) + 1,
                            Len(BodyStream(answer))),
     conn        |-> "held",
     reads       |-> IF BodyStream(answer) = <<>> THEN 0 ELSE 1,
     pulls       |-> 0]

\* the iterator once the generator has run up to its first yield, inside
\* the async with (the connection is held): status_code and headers are set,
\* and nothing of the body is read
IteratorOver(url, answer) ==
    [state       |-> "open",
     url         |-> url,
     status_code |-> answer.status,
     headers     |-> answer.headers,
     remaining   |-> BodyStream(answer),
     conn        |-> "held",
     reads       |-> 0,
     pulls       |-> 0]

\* the GET that failed before the response headers arrived: no answer
FaultedGet(url, request_headers) ==
    [NoUpstream EXCEPT !.gets = 1, !.url = url, !.headers = ProxiedHeaders(request_headers)]

\* a create_iterator that swallows the fault and returns the iterator, its
\* status_code and headers unset
CreateIteratorFault_swallowed(url) ==
    [NoIterator EXCEPT !.state = "open", !.url = url]

\* the fault leaves the async with (nothing is held), the generator, the
\* __anext__ of create_iterator and create_iterator: no iterator is returned
CreateIteratorFault(url) == NoIterator

\* a read fault that is reported as the end of the body
ReadFault_masked(iterator) ==
    [iterator EXCEPT !.state = "exhausted", !.conn = "released", !.pulls = iterator.pulls + 1]

\* the read of the next chunk fails: the exception leaves the async with,
\* which releases the connection, and the __anext__ of the consumer; the
\* generator is finished and status_code and headers stay as they are
ReadFault(iterator) ==
    [iterator EXCEPT !.state = "failed", !.conn = "released", !.pulls = iterator.pulls + 1]

\* a generator that starts over when it is pulled after its end
AfterEnd_restarted(iterator, answer) ==
    [iterator EXCEPT !.state = "open", !.remaining = BodyStream(answer), !.conn = "held",
                     !.pulls = iterator.pulls + 1]

\* __anext__ of a generator that has finished: StopAsyncIteration again
AfterEnd(iterator, answer) == [iterator EXCEPT !.pulls = iterator.pulls + 1]

\* the iterator create_iterator returns; its b"" was consumed by create_iterator
create_iterator(url, request_headers, variant) ==
    IteratorOver(url, UpstreamGet(url, request_headers, variant).answer)

(***************************************************************************)
(* routers/simple.py: what the handlers compute.                           *)
(***************************************************************************)
\* a comparison that lowers the name and forgets the separators
NeedsRedirect_lower_only(project_name) == lower(project_name) # project_name

\* normed_prj_name != project_name
NeedsRedirect(project_name) == canonicalize_name(project_name) # project_name

\* a redirect that loses the query string
WithQuery_dropped(correct_url, query) == correct_url

\* correct_url, with "?" and the query string when there is one
WithQuery(correct_url, query) ==
    IF query # <<>> THEN correct_url \o <<"?">> \o query ELSE correct_url

\* a redirect to the name in lower case, its separators left as they are
CanonicalRedirect_lowercased(request, mount) ==
    RedirectResponse(
        WithQuery(relative_url_for(request, mount, "simple_project_page",
                                   lower(request.project_name), <<>>).value,
                  request.query),
        301)

\* the canonical-name redirect of simple_project_page
CanonicalRedirect(request, mount) ==
    RedirectResponse(
        WithQuery(relative_url_for(request, mount, "simple_project_page",
                                   canonicalize_name(request.project_name), <<>>).value,
                  request.query),
        301)

\* a page handed on with the URLs of the backend
replace_urls_kept(project_page, project_name, request, mount) == project_page

\* utils.replace_urls
replace_urls(project_page, project_name, request, mount) ==
    [project_page EXCEPT !.files =
        [i \in DOMAIN project_page.files |->
            [project_page.files[i] EXCEPT !.url =
                relative_url_for(request, mount, "resources", project_name,
                                 project_page.files[i].filename).value]]]

\* serializer.serialize(page, format) and the Response that carries it
PageResponse(page, response_format) ==
    Response(200, EmptyDict, response_format,
             [kind |-> "page", data |-> [format |-> response_format, page |-> page]])

\* the project name simple_project_page looks up
PageLookupName(request) == request.project_name

\* the project name the resources endpoint looks up
ResourceLookupName(request) == request.project_name

\* req_ctx = model.RequestContext(context=dict(request.headers.items()))
RequestContext(request) == request.headers

\* a 304 that carries no ETag header
TextResponse_bare_304(resource, request, etag) ==
    IF etag = Get(request.headers, H_if_none_match)
    THEN HTTPException(304, <<>>, EmptyDict)
    ELSE Response(200, (H_ETag :> etag), M_text_plain,
                  [kind |-> "text", data |-> resource.text])

\* the TextResource branch of resources, etag being the ETag it computed
TextResponse(resource, request, etag) ==
    IF etag = Get(request.headers, H_if_none_match)
    THEN HTTPException(304, <<>>, (H_ETag :> etag))
    ELSE Response(200, (H_ETag :> etag), M_text_plain,
                  [kind |-> "text", data |-> resource.text])

TextResourceResponse(resource, request) ==
    TextResponse(resource, request, TextEtag(resource.text))

\* response_headers = {"ETag": ctx_etag} if ctx_etag else {}
LocalResponseHeaders(ctx_etag) ==
    IF ctx_etag # None /\ ctx_etag # <<>> THEN (H_ETag :> ctx_etag) ELSE EmptyDict

\* a comparison without the guard on client_etag: None equals None
LocalNotModified_unguarded(client_etag, ctx_etag) == client_etag = ctx_etag

\* if client_etag := request.headers.get("if-none-match"):
\*     if client_etag == ctx_etag:
LocalNotModified(client_etag, ctx_etag) ==
    client_etag # None /\ client_etag # <<>> /\ client_etag = ctx_etag

\* the LocalResource branch of resources
LocalResourceResponse(resource, request) ==
    IF LocalNotModified(Get(request.headers, H_if_none_match), Get(resource.context, K_etag))
    THEN HTTPException(304, <<>>, LocalResponseHeaders(Get(resource.context, K_etag)))
    ELSE Response(200, LocalResponseHeaders(Get(resource.context, K_etag)), M_octet,
                  [kind |-> "file", data |-> resource.path])

\* a redirect that is permanent
HttpRedirectResponse_permanent(resource) == RedirectResponse(resource.url, 301)

\* the HttpResource branch of resources when stream_http_resources is off
HttpRedirectResponse(resource) == RedirectResponse(resource.url, 302)

\* StreamingResponse(content=response_iterator,
\*     status_code=response_iterator.status_code, headers=response_iterator.headers)
StreamingResponse(response_iterator) ==
    Response(response_iterator.status_code, response_iterator.headers, None,
             [kind |-> "stream", data |-> <<>>])

\* the request headers the resources endpoint hands to create_iterator
StreamRequestHeaders(request) == request.headers

(***************************************************************************)
(* The state machine.                                                      *)
(***************************************************************************)
\* no result yet
NoResult == [ok |-> FALSE, value |-> <<>>]

\* no call of a pure function
NoCall == [fn |-> "none", args |-> <<>>, step |-> 0, result |-> NoResult, again |-> NoResult]

\* a task with no request
NoTask ==
    [pc |-> "idle", req |-> NoRequest, lookups |-> <<>>, resp |-> NoResponse,
     upstream |-> NoUpstream, it |-> NoIterator, delivered |-> <<>>]

\* the application after its startup: the lifespan is at its yield, the
\* client is open and the router is included
Serving == [phase |-> "serving", http_client |-> "open", repo |-> TRUE, routes |-> TRUE]

Init ==
    /\ stream_http_resources \in BOOLEAN
    /\ repo_factory = "none"
    /\ root_path \in RootPaths
    /\ other = NoTask
    /\ app = Serving
    /\ pc = "idle"
    /\ req = NoRequest
    /\ lookups = <<>>
    /\ resp = NoResponse
    /\ upstream = NoUpstream
    /\ it = NoIterator
    /\ delivered = <<>>
    /\ call = NoCall

config == <<stream_http_resources, repo_factory, root_path>>

\* what no handler writes: the task that is suspended and the application
outside == <<other, app>>

Request(endpoint, project_name, resource_name, headers, query) ==
    [endpoint |-> endpoint, project_name |-> project_name, resource_name |-> resource_name,
     headers |-> headers, query |-> query, cutoff_date |-> <<>>]

\* the requests of the three routes; the resources endpoint reads no query
Requests ==
    {Request("project_list", <<>>, <<>>, h, q) : h \in PageRequestHeaders, q \in Queries}
    \cup {Request("simple_project_page", n, <<>>, h, q) :
            n \in ProjectNames, h \in PageRequestHeaders, q \in Queries}
    \cup {Request("resources", n, ResourceName, h, <<>>) :
            n \in ProjectNames, h \in ResourceRequestHeaders}

\* the values of the path parameter of the prefix
CutoffDates == {<<"1">>, <<"2">>}

\* the requests that match the routes of the router: those of the simple
\* endpoints carry the path parameter of the prefix when it has one
RoutedRequests ==
    IF repo_factory = "none" THEN Requests
    ELSE {r \in Requests : r.endpoint = "resources"}
         \cup {[r EXCEPT !.cutoff_date = d] :
                  r \in {q \in Requests : q.endpoint # "resources"}, d \in CutoffDates}

\* a request arrives at one of the three routes
Receive ==
    /\ pc = "idle"
    /\ app.phase = "serving"
    /\ req' \in RoutedRequests
    /\ pc' = "received"
    /\ UNCHANGED <<config, outside, call, lookups, resp, upstream, it, delivered>>

\* the response is complete: nothing of the request outlives it
Complete ==
    /\ pc = "done"
    /\ it.conn # "held"
    /\ pc' = "idle"
    /\ req' = NoRequest
    /\ lookups' = <<>>
    /\ resp' = NoResponse
    /\ upstream' = NoUpstream
    /\ it' = NoIterator
    /\ delivered' = <<>>
    /\ UNCHANGED <<config, outside, call>>

\* the handler ends with response r, having made the backend calls ls
Finish(r, ls) ==
    /\ resp' = r
    /\ lookups' = lookups \o ls
    /\ pc' = "done"
    /\ UNCHANGED <<config, outside, call, req, upstream, it, delivered>>

\* a Response without media_type: the Content-Type of the router's default
ListResponse_default_type(response_format) ==
    Response(200, EmptyDict, F_html_legacy,
             [kind |-> "list", data |-> [format |-> response_format]])

ListResponse(response_format) ==
    Response(200, EmptyDict, response_format,
             [kind |-> "list", data |-> [format |-> response_format]])

\* the handler of a route that depends on get_response_format is not
\* entered when the negotiation fails: the dependency raises 406
NotAcceptable(response_format) ==
    Finish(HTTPException(406, response_format.value, EmptyDict), <<>>)

\* a handler that falls back to HTML v1 when the negotiation fails
project_list_body_fallback(response_format) ==
    Finish(ListResponse(IF response_format.ok THEN response_format.value ELSE F_html_v1),
           <<LookupIn(Depends_repo_factory(req),
                      Lookup("get_project_list", <<>>, <<>>, EmptyDict,
                             [kind |-> "ProjectList"]))>>)

project_list_body(response_format) ==
    IF ~response_format.ok
    THEN NotAcceptable(response_format)
    ELSE Finish(ListResponse(response_format.value),
                <<LookupIn(Depends_repo_factory(req),
                      Lookup("get_project_list", <<>>, <<>>, EmptyDict,
                             [kind |-> "ProjectList"]))>>)

project_list ==
    /\ pc = "received"
    /\ req.endpoint = "project_list"
    /\ project_list_body(get_response_format(req))

\* the response of simple_project_page to what get_project_page answered
ProjectPageResponse(package_releases, request, mount, response_format) ==
    IF package_releases.kind = "PackageNotFoundError"
    THEN HTTPException(404, str(package_releases), EmptyDict)
    ELSE PageResponse(replace_urls(package_releases, request.project_name, request, mount),
                      response_format)

simple_project_page_body(response_format) ==
    IF ~response_format.ok
    THEN NotAcceptable(response_format)
    ELSE IF NeedsRedirect(req.project_name)
    THEN Finish(CanonicalRedirect(req, root_path), <<>>)
    ELSE \E package_releases \in ProjectPageAnswers(PageLookupName(req)) :
            Finish(ProjectPageResponse(package_releases, req, root_path, response_format.value),
                   <<LookupIn(Depends_repo_factory(req),
                              Lookup("get_project_page", PageLookupName(req), <<>>,
                                     EmptyDict, package_releases))>>)

simple_project_page ==
    /\ pc = "received"
    /\ req.endpoint = "simple_project_page"
    /\ simple_project_page_body(get_response_format(req))

\* a dispatcher that honours If-None-Match for an HttpResource too
ResourceResponse_http_conditional(resource, request) ==
    CASE resource.kind = "ResourceUnavailable" -> HTTPException(404, str(resource), EmptyDict)
      [] resource.kind = "InvalidPackageError" -> HTTPException(502, str(resource), EmptyDict)
      [] resource.kind = "TextResource" -> TextResourceResponse(resource, request)
      [] resource.kind = "HttpResource" ->
           IF Get(request.headers, H_if_none_match) # None
           THEN HTTPException(304, <<>>, EmptyDict)
           ELSE HttpRedirectResponse(resource)
      [] resource.kind = "LocalResource" -> LocalResourceResponse(resource, request)
      [] OTHER -> ServerError("ValueError")

\* a dispatcher that answers every error of the backend with 404
ResourceResponse_all_404(resource, request) ==
    CASE resource.kind \in {"ResourceUnavailable", "InvalidPackageError"} ->
           HTTPException(404, str(resource), EmptyDict)
      [] resource.kind = "TextResource" -> TextResourceResponse(resource, request)
      [] resource.kind = "HttpResource" -> HttpRedirectResponse(resource)
      [] resource.kind = "LocalResource" -> LocalResourceResponse(resource, request)
      [] OTHER -> ServerError("ValueError")

\* a dispatcher whose last branch takes whatever is left
ResourceResponse_open_set(resource, request) ==
    CASE resource.kind = "ResourceUnavailable" -> HTTPException(404, str(resource), EmptyDict)
      [] resource.kind = "InvalidPackageError" -> HTTPException(502, str(resource), EmptyDict)
      [] resource.kind = "TextResource" -> TextResourceResponse(resource, request)
      [] resource.kind = "HttpResource" -> HttpRedirectResponse(resource)
      [] OTHER -> LocalResourceResponse(resource, request)

\* the response of resources to what get_resource answered, stream mode apart
ResourceResponse(resource, request) ==
    CASE resource.kind = "ResourceUnavailable" -> HTTPException(404, str(resource), EmptyDict)
      [] resource.kind = "InvalidPackageError" -> HTTPException(502, str(resource), EmptyDict)
      [] resource.kind = "TextResource" -> TextResourceResponse(resource, request)
      [] resource.kind = "HttpResource" -> HttpRedirectResponse(resource)
      [] resource.kind = "LocalResource" -> LocalResourceResponse(resource, request)
      [] OTHER -> ServerError("ValueError")

\* the resources endpoint, for every answer of get_resource but an
\* HttpResource in stream mode
resources ==
    /\ pc = "received"
    /\ req.endpoint = "resources"
    /\ \E resource \in ResourceAnswers :
          /\ ~(resource.kind = "HttpResource" /\ stream_http_resources)
          /\ Finish(ResourceResponse(resource, req),
                    <<Lookup("get_resource", ResourceLookupName(req), req.resource_name,
                             RequestContext(req), resource)>>)

\* the resources endpoint for an HttpResource in stream mode: create_iterator
\* issues the upstream GET and returns once status and headers are there
resources_stream ==
    /\ pc = "received"
    /\ req.endpoint = "resources"
    /\ stream_http_resources
    /\ \E resource \in {r \in ResourceAnswers : r.kind = "HttpResource"},
          variant \in UpstreamVariants :
          /\ lookups' = Append(lookups, Lookup("get_resource", ResourceLookupName(req),
                                              req.resource_name, RequestContext(req),
                                              resource))
          /\ upstream' = UpstreamGet(resource.url, StreamRequestHeaders(req), variant)
          /\ it' = create_iterator(resource.url, StreamRequestHeaders(req), variant)
          /\ resp' = StreamingResponse(it')
    /\ pc' = "streaming"
    /\ UNCHANGED <<config, outside, call, req, delivered>>

\* the fault of the upstream GET inside create_iterator: the exception
\* leaves the handler and the server answers 500
resources_stream_fault ==
    /\ pc = "received"
    /\ req.endpoint = "resources"
    /\ stream_http_resources
    /\ \E resource \in {r \in ResourceAnswers : r.kind = "HttpResource"} :
          /\ lookups' = Append(lookups, Lookup("get_resource", ResourceLookupName(req),
                                              req.resource_name, RequestContext(req),
                                              resource))
          /\ upstream' = FaultedGet(resource.url, StreamRequestHeaders(req))
          /\ it' = CreateIteratorFault(resource.url)
    /\ resp' = IF it'.state = "none" THEN ServerError("ConnectError") ELSE StreamingResponse(it')
    /\ pc' = IF it'.state = "none" THEN "done" ELSE "streaming"
    /\ UNCHANGED <<config, outside, call, req, delivered>>

\* a direct call of HttpResponseIterator.create_iterator with any mapping
\* as request_headers, consumed with async for
create_iterator_call ==
    /\ pc = "idle"
    /\ \E request_headers \in DirectHeaders, variant \in UpstreamVariants :
          /\ req' = [NoRequest EXCEPT !.endpoint = "create_iterator",
                                      !.headers = request_headers]
          /\ upstream' = UpstreamGet(U_my_url, request_headers, variant)
          /\ it' = create_iterator(U_my_url, request_headers, variant)
    /\ pc' = "streaming"
    /\ UNCHANGED <<config, outside, call, lookups, resp, delivered>>

\* a direct call of create_iterator whose GET fails: the caller gets the
\* exception and no iterator
create_iterator_call_fault ==
    /\ pc = "idle"
    /\ \E request_headers \in DirectHeaders :
          /\ req' = [NoRequest EXCEPT !.endpoint = "create_iterator",
                                      !.headers = request_headers]
          /\ upstream' = FaultedGet(U_my_url, request_headers)
    /\ it' = CreateIteratorFault(U_my_url)
    /\ pc' = IF it'.state = "none" THEN "done" ELSE "streaming"
    /\ UNCHANGED <<config, outside, call, lookups, resp, delivered>>

\* __anext__ when the body has a next chunk: the consumer gets it
anext_chunk ==
    /\ pc = "streaming"
    /\ it.state = "open"
    /\ it.remaining # <<>>
    /\ delivered' = Append(delivered, NextChunk(it.remaining))
    /\ it' = [it EXCEPT !.remaining = SubSeq(it.remaining, Len(NextChunk(it.remaining)) + 1,
                                             Len(it.remaining)),
                        !.reads = it.reads + 1,
                        !.pulls = it.pulls + 1]
    /\ UNCHANGED <<config, outside, call, pc, req, lookups, resp, upstream>>

\* __anext__ when the body is exhausted: the generator leaves the async
\* with, which releases the connection, and the iteration stops
anext_stop ==
    /\ pc = "streaming"
    /\ it.state = "open"
    /\ it.remaining = <<>>
    /\ it' = [it EXCEPT !.state = "exhausted", !.conn = "released", !.pulls = it.pulls + 1]
    /\ pc' = "done"
    /\ UNCHANGED <<config, outside, call, req, lookups, resp, upstream, delivered>>

\* __anext__ when reading the body fails: the exception leaves the async
\* with, which releases the connection, and the body ends short
anext_fault ==
    /\ pc = "streaming"
    /\ it.state = "open"
    /\ it.remaining # <<>>
    /\ it' = ReadFault(it)
    /\ pc' = "done"
    /\ UNCHANGED <<config, outside, call, req, lookups, resp, upstream, delivered>>

\* the consumer's task is cancelled while it waits in __anext__ for the
\* next chunk (the client disconnected): CancelledError is raised in the
\* generator, inside the async with, which releases the connection
abandon_in_pull ==
    /\ pc = "streaming"
    /\ it.state = "open"
    /\ it' = [it EXCEPT !.state = "cancelled", !.conn = "released", !.pulls = it.pulls + 1]
    /\ pc' = "done"
    /\ UNCHANGED <<config, outside, call, req, lookups, resp, upstream, delivered>>

\* the consumer goes away between two pulls (its task is cancelled while it
\* sends a chunk on, or it leaves its async for): the generator stays
\* suspended at its yield, inside the async with, and HttpResponseIterator
\* has nothing that closes it
abandon_suspended ==
    /\ pc = "streaming"
    /\ it.state = "open"
    /\ it' = [it EXCEPT !.state = "abandoned"]
    /\ pc' = "done"
    /\ UNCHANGED <<config, outside, call, req, lookups, resp, upstream, delivered>>

\* the interpreter finalizes the unreferenced generator: GeneratorExit is
\* raised at its yield and leaves the async with, which releases the
\* connection
asyncgen_finalize ==
    /\ it.state = "abandoned"
    /\ it' = [it EXCEPT !.state = "closed", !.conn = "released"]
    /\ UNCHANGED <<config, outside, call, pc, req, lookups, resp, upstream, delivered>>

\* __anext__ after the sequence has ended, by exhaustion or by a fault
anext_ended ==
    /\ pc = "done"
    /\ it.state \in {"exhausted", "failed"}
    /\ it.pulls < it.reads + 1 + MaxRepulls
    /\ it' = AfterEnd(it, upstream.answer)
    /\ UNCHANGED <<config, outside, call, pc, req, lookups, resp, upstream, delivered>>

Next ==
    \/ Receive
    \/ Complete
    \/ project_list
    \/ simple_project_page
    \/ resources
    \/ resources_stream
    \/ resources_stream_fault
    \/ create_iterator_call
    \/ create_iterator_call_fault
    \/ anext_chunk
    \/ anext_stop
    \/ anext_fault
    \/ anext_ended
    \/ abandon_in_pull
    \/ abandon_suspended
    \/ asyncgen_finalize

Spec == Init /\ [][Next]_vars

(***************************************************************************)
(* The router built with and without a repo_factory, HTTP resources        *)
(* redirected: the requests of its three routes.                           *)
(***************************************************************************)
FactoryInit ==
    /\ stream_http_resources = FALSE
    /\ repo_factory \in {"none", "given"}
    /\ root_path \in RootPaths
    /\ other = NoTask
    /\ app = Serving
    /\ pc = "idle"
    /\ req = NoRequest
    /\ lookups = <<>>
    /\ resp = NoResponse
    /\ upstream = NoUpstream
    /\ it = NoIterator
    /\ delivered = <<>>
    /\ call = NoCall

FactoryNext ==
    \/ Receive
    \/ Complete
    \/ project_list
    \/ simple_project_page
    \/ resources

FactorySpec == FactoryInit /\ [][FactoryNext]_vars

(***************************************************************************)
(* Two requests handled concurrently.  The event loop runs one task at a   *)
(* time: pc, req, lookups, resp, upstream, it and delivered are the locals *)
(* of the task that runs, `other` holds those of the task that is          *)
(* suspended at an await, and the loop may resume the other task wherever  *)
(* the running one awaits (between two steps of a handler).  What the two  *)
(* tasks have in common is the configuration of the router, the            *)
(* repository and the http_client.                                         *)
(***************************************************************************)
\* the locals of the running task
Running ==
    [pc |-> pc, req |-> req, lookups |-> lookups, resp |-> resp,
     upstream |-> upstream, it |-> it, delivered |-> delivered]

\* a handler that keeps its iterator in a variable of the module: the task
\* that is resumed finds the iterator of the task that ran before it
Resumed_shared_iterator(task, running) == [task EXCEPT !.it = running.it]

\* the locals a task finds when it is resumed: its own
Resumed(task, running) == task

\* the running task awaits and the loop resumes the other one
switch ==
    /\ other' = Running
    /\ pc' = Resumed(other, Running).pc
    /\ req' = Resumed(other, Running).req
    /\ lookups' = Resumed(other, Running).lookups
    /\ resp' = Resumed(other, Running).resp
    /\ upstream' = Resumed(other, Running).upstream
    /\ it' = Resumed(other, Running).it
    /\ delivered' = Resumed(other, Running).delivered
    /\ UNCHANGED <<config, call, app>>

\* the requests of the two tasks: the list, and a resource asked for with
\* and without a validator
ConcurrentRequests ==
    {Request("project_list", <<>>, <<>>, EmptyDict, <<>>)}
    \cup {Request("resources", <<"a">>, ResourceName, h, <<>>) :
            h \in {EmptyDict, (H_if_none_match :> E_1)}}

\* a request arrives and a task is started for it
ReceiveConcurrent ==
    /\ pc = "idle"
    /\ app.phase = "serving"
    /\ req' \in ConcurrentRequests
    /\ pc' = "received"
    /\ UNCHANGED <<config, outside, call, lookups, resp, upstream, it, delivered>>

ConcInit ==
    /\ stream_http_resources = TRUE
    /\ repo_factory = "none"
    /\ root_path = <<>>
    /\ other = NoTask
    /\ app = Serving
    /\ pc = "idle"
    /\ req = NoRequest
    /\ lookups = <<>>
    /\ resp = NoResponse
    /\ upstream = NoUpstream
    /\ it = NoIterator
    /\ delivered = <<>>
    /\ call = NoCall

ConcNext ==
    \/ ReceiveConcurrent
    \/ switch
    \/ Complete
    \/ project_list
    \/ resources
    \/ resources_stream
    \/ anext_chunk
    \/ anext_stop

ConcSpec == ConcInit /\ [][ConcNext]_vars

(***************************************************************************)
(* The life of the application that __main__.create_app builds: the        *)
(* lifespan opens the client, creates the repository, includes the router  *)
(* and yields; the server that handler() starts with uvicorn.run serves    *)
(* requests from then on, stops accepting them when it is told to shut     *)
(* down, lets the tasks of the requests it has finish, and resumes the     *)
(* lifespan after its yield, which leaves the async with of the client.    *)
(***************************************************************************)
\* create_app returned: nothing of the lifespan has run
Created == [phase |-> "created", http_client |-> "none", repo |-> FALSE, routes |-> FALSE]

\* a yield after the async with block: the client is closed when the
\* server starts to serve
AtYield_after_with(a) == [a EXCEPT !.phase = "serving", !.http_client = "closed"]

\* the yield of the lifespan, inside the async with of the client
AtYield(a) == [a EXCEPT !.phase = "serving"]

\* AsyncClient.aclose() closes the pool and with it a connection that a
\* suspended generator still holds
ClosePool(task) ==
    IF task.it.conn = "held" THEN [task EXCEPT !.it.conn = "released"] ELSE task

\* async with httpx.AsyncClient(auth=auth, follow_redirects=True) as http_client
lifespan_open_client ==
    /\ app.phase = "created"
    /\ app' = [app EXCEPT !.phase = "client_open", !.http_client = "open"]
    /\ UNCHANGED <<config, call, other, pc, req, lookups, resp, upstream, it, delivered>>

\* repo = create_repository(repository_urls, http_client=http_client)
lifespan_create_repository ==
    /\ app.phase = "client_open"
    /\ app' = [app EXCEPT !.phase = "repo_created", !.repo = TRUE]
    /\ UNCHANGED <<config, call, other, pc, req, lookups, resp, upstream, it, delivered>>

\* app.include_router(simple.build_router(repo, http_client=http_client, ...))
\* and the yield: the startup is complete
lifespan_include_router ==
    /\ app.phase = "repo_created"
    /\ app' = AtYield([app EXCEPT !.routes = TRUE])
    /\ UNCHANGED <<config, call, other, pc, req, lookups, resp, upstream, it, delivered>>

\* the server is told to stop: it accepts no request any more
shutdown_signal ==
    /\ app.phase = "serving"
    /\ app' = [app EXCEPT !.phase = "draining"]
    /\ UNCHANGED <<config, call, other, pc, req, lookups, resp, upstream, it, delivered>>

\* the tasks of the requests are complete and the server resumes the
\* lifespan after its yield: the async with closes the client
lifespan_shutdown ==
    /\ app.phase = "draining"
    /\ pc \in {"idle", "done"}
    /\ other.pc \in {"idle", "done"}
    /\ app' = [app EXCEPT !.phase = "stopped", !.http_client = "closed"]
    /\ it' = ClosePool(Running).it
    /\ other' = ClosePool(other)
    /\ UNCHANGED <<config, call, pc, req, lookups, resp, upstream, delivered>>

LifeInit ==
    /\ stream_http_resources = TRUE
    /\ repo_factory = "none"
    /\ root_path = <<>>
    /\ other = NoTask
    /\ app = Created
    /\ pc = "idle"
    /\ req = NoRequest
    /\ lookups = <<>>
    /\ resp = NoResponse
    /\ upstream = NoUpstream
    /\ it = NoIterator
    /\ delivered = <<>>
    /\ call = NoCall

LifeNext ==
    \/ lifespan_open_client
    \/ lifespan_create_repository
    \/ lifespan_include_router
    \/ shutdown_signal
    \/ lifespan_shutdown
    \/ ReceiveConcurrent
    \/ switch
    \/ Complete
    \/ project_list
    \/ resources
    \/ resources_stream
    \/ anext_chunk
    \/ anext_stop
    \/ abandon_suspended
    \/ asyncgen_finalize

LifeSpec == LifeInit /\ [][LifeNext]_vars

(***************************************************************************)
(* The pure functions on their own: url_as_relative and canonicalize_name  *)
(* applied to arguments drawn from bounded sets.                           *)
(***************************************************************************)
\* scheme and network location of the URLs
Authorities ==
    {<<"h", "t", "t", "p", "s", ":", "/", "/", "h">>,
     <<"h", "t", "t", "p", ":", "/", "/", "h">>,
     <<"h", "t", "t", "p", "s", ":", "/", "/", "g">>,
     <<"h", "t", "t", "p", "s", ":", "/", "/", "h", ":", "8", "1">>}

\* the lists of at most n directory segments
RECURSIVE DirLists(_)
DirLists(n) ==
    IF n = 0 THEN {<<>>}
    ELSE DirLists(n - 1) \cup {Append(ds, d) : ds \in DirLists(n - 1), d \in {<<"a">>, <<"b">>}}

\* the directory segments as a path: each followed by "/"
RECURSIVE DirPath(_)
DirPath(dirs) == IF dirs = <<>> THEN <<>> ELSE Head(dirs) \o <<"/">> \o DirPath(Tail(dirs))

\* the paths: none, or "/", directories and a final segment that may be empty
UrlPaths ==
    {<<>>} \cup {<<"/">> \o DirPath(dirs) \o last :
                    dirs \in DirLists(MaxDirs), last \in {<<>>, <<"a">>, <<"c">>}}

\* absolute URLs, with and without a query string, and references that are
\* not absolute
Urls ==
    {authority \o path \o query :
        authority \in Authorities, path \in UrlPaths, query \in {<<>>, <<"?", "q">>}}
    \cup {<<".", ".", "/", "a">>, <<"/", "a", "/", "b">>}

CanonAlphabet == {"a", "B", "-", "_", "."}

(***************************************************************************)
(* __main__.get_netrc_path.  The environment is the value of NETRC, None   *)
(* when it is not set, and the file system says of each path whether       *)
(* nothing, a regular file or a directory is there.                        *)
(***************************************************************************)
\* Path(s): a trailing "/" is no part of the path
RECURSIVE Path(_)
Path(s) == IF Len(s) > 1 /\ s[Len(s)] = "/" THEN Path(SubSeq(s, 1, Len(s) - 1)) ELSE s

\* Path.home() / ".netrc"
HomeNetrc == <<"/", "h", "/", ".", "n", "e", "t", "r", "c">>

\* a path NETRC may name
EnvNetrc == <<"/", "n">>

FileKinds == {"missing", "file", "dir"}

\* what is at the two paths
FileSystems == [{EnvNetrc, HomeNetrc} -> FileKinds]

\* Path.exists() and Path.is_file()
exists(fs, path) == path \in DOMAIN fs /\ fs[path] # "missing"
is_file(fs, path) == path \in DOMAIN fs /\ fs[path] = "file"

\* the file if it is there
ValidNetrc(fs, path) == IF exists(fs, path) /\ is_file(fs, path) THEN path ELSE None

\* a NETRC that names no file yields the default
get_netrc_path_fallback(netrc_env, fs) ==
    IF netrc_env # None /\ netrc_env # <<>> /\ ValidNetrc(fs, Path(netrc_env)) # None
    THEN Path(netrc_env)
    ELSE ValidNetrc(fs, HomeNetrc)

get_netrc_path(netrc_env, fs) ==
    IF netrc_env # None /\ netrc_env # <<>>
    THEN ValidNetrc(fs, Path(netrc_env))
    ELSE ValidNetrc(fs, HomeNetrc)

\* the values of NETRC: not set, empty, a path, the path with a trailing
\* slash, the default path itself
NetrcValues == {None, <<>>, EnvNetrc, EnvNetrc \o <<"/">>, HomeNetrc}

\* the calls of the functions of the module on their own, the URLs from urls
PureCalls(urls) ==
    {[NoCall EXCEPT !.fn = "get_netrc_path", !.args = <<netrc_env, fs>>] :
        netrc_env \in NetrcValues, fs \in FileSystems}
    \cup {[NoCall EXCEPT !.fn = "url_as_relative", !.args = <<destination, origin>>] :
        destination \in urls, origin \in urls}
    \cup {[NoCall EXCEPT !.fn = "canonicalize_name", !.args = <<name>>] :
            name \in StringsUpTo(CanonAlphabet, MaxCanonLen)}

PureInit ==
    /\ stream_http_resources = FALSE
    /\ repo_factory = "none"
    /\ root_path = <<>>
    /\ other = NoTask
    /\ app = Serving
    /\ pc = "idle"
    /\ req = NoRequest
    /\ lookups = <<>>
    /\ resp = NoResponse
    /\ upstream = NoUpstream
    /\ it = NoIterator
    /\ delivered = <<>>
    /\ call \in PureCalls(Urls)

\* url_as_relative(destination_absolute_url, origin_absolute_url)
apply_url_as_relative ==
    /\ call.fn = "url_as_relative"
    /\ call.step = 0
    /\ call' = [call EXCEPT !.step = 1,
                            !.result = url_as_relative(call.args[1], call.args[2])]
    /\ UNCHANGED <<config, outside, pc, req, lookups, resp, upstream, it, delivered>>

\* canonicalize_name(name), and canonicalize_name of its result
apply_canonicalize_name ==
    /\ call.fn = "canonicalize_name"
    /\ call.step < 2
    /\ call' = IF call.step = 0
               THEN [call EXCEPT !.step = 1,
                                 !.result = [ok |-> TRUE,
                                             value |-> canonicalize_name(call.args[1])]]
               ELSE [call EXCEPT !.step = 2,
                                 !.again = [ok |-> TRUE,
                                            value |-> canonicalize_name(call.result.value)]]
    /\ UNCHANGED <<config, outside, pc, req, lookups, resp, upstream, it, delivered>>

\* get_netrc_path() in an environment and a file system
apply_get_netrc_path ==
    /\ call.fn = "get_netrc_path"
    /\ call.step = 0
    /\ call' = [call EXCEPT !.step = 1,
                            !.result = [ok |-> TRUE,
                                        value |-> get_netrc_path(call.args[1], call.args[2])]]
    /\ UNCHANGED <<config, outside, pc, req, lookups, resp, upstream, it, delivered>>

PureNext ==
    \/ apply_url_as_relative
    \/ apply_canonicalize_name
    \/ apply_get_netrc_path

PureSpec == PureInit /\ [][PureNext]_vars

(***************************************************************************)
(* The claims.                                                             *)
(***************************************************************************)
\* a name in canonical form, said without canonicalize_name: no upper-case
\* letter, no "_", no ".", and no two "-" in a row
IsCanonicalForm(name) ==
    /\ \A i \in DOMAIN name : name[i] \notin Range(UpperAlpha) \cup {"_", "."}
    /\ \A i \in 1..(Len(name) - 1) : ~(name[i] = "-" /\ name[i + 1] = "-")

\* the handler of the request has ended
Handled(endpoint) == pc = "done" /\ req.endpoint = endpoint

\* the backend operations called for the request
Called(op) == \E i \in DOMAIN lookups : lookups[i].op = op

\* the value of the request's negotiation is one the negotiation accepts
Negotiable == get_response_format(req).ok

\* C1 (as amended): a project-detail request whose project name is not in
\* canonical form never reaches get_project_page; it is answered 301 when
\* the content negotiation of the request succeeds, and 406, by the
\* get_response_format dependency that runs before the handler, when not.
C1_NonCanonicalNeverLooksUp ==
    (Handled("simple_project_page") /\ ~IsCanonicalForm(req.project_name))
    => /\ ~Called("get_project_page")
       /\ lookups = <<>>
       /\ resp.status = IF Negotiable THEN 301 ELSE 406

C1_Witness ==
    /\ Handled("simple_project_page")
    /\ ~IsCanonicalForm(req.project_name)
    /\ Negotiable
    /\ resp.status = 301
    /\ lookups = <<>>

\* C1 as stated: every project-detail request whose project name is not in
\* canonical form is answered 301, without a call of get_project_page.
C1_Original ==
    (Handled("simple_project_page") /\ ~IsCanonicalForm(req.project_name))
    => (resp.status = 301 /\ ~Called("get_project_page"))

\* C2: the Location of the canonical-name redirect is "../", the canonical
\* form of the project name and "/" (the path of the same route, relative
\* to the request URL, whatever the mount prefix), followed by "?" and the
\* query string as the request had it when that is not empty, and by
\* nothing otherwise.
C2_RedirectLocation ==
    (Handled("simple_project_page") /\ resp.status = 301)
    => /\ DOMAIN resp.headers = {H_location}
       /\ resp.headers[H_location] =
             <<".", ".", "/">> \o canonicalize_name(req.project_name) \o <<"/">>
             \o (IF req.query = <<>> THEN <<>> ELSE <<"?">> \o req.query)

C2_Witness ==
    /\ Handled("simple_project_page")
    /\ resp.status = 301
    /\ root_path = MountM
    /\ req.project_name = <<"a", "_">>
    /\ req.query = Q_format_eq \o F_json_v1
    /\ resp.headers[H_location] = <<".", ".", "/", "a", "-", "/", "?">> \o Q_format_eq \o F_json_v1

\* C3 as stated: every project name handed to get_project_page or to
\* get_resource is in canonical form.
C3_LookupNamesCanonical ==
    \A i \in DOMAIN lookups :
        lookups[i].op \in {"get_project_page", "get_resource"}
        => IsCanonicalForm(lookups[i].project_name)

\* C4 as stated: the RequestContext handed to get_resource holds only
\* request headers whose lower-cased name is on the allow-list.
C4_ContextAllowListed ==
    \A i \in DOMAIN lookups :
        lookups[i].op = "get_resource"
        => \A name \in DOMAIN lookups[i].request_context :
              lower(name) \in {H_accept, H_user_agent, H_accept_encoding,
                               H_if_unmodified_since, H_if_range, H_if_none_match,
                               H_if_modified_since, H_if_match, H_range, H_referer}

\* C5: the upstream GET of create_iterator carries exactly the entries of
\* request_headers whose lower-cased name is in PROXIED_REQUEST_HEADERS, each
\* with its value, and no other entry.
C5_UpstreamHeadersFiltered ==
    upstream.gets = 1
    => /\ \A name \in DOMAIN upstream.headers :
             /\ name \in DOMAIN req.headers
             /\ upstream.headers[name] = req.headers[name]
             /\ lower(name) \in PROXIED_REQUEST_HEADERS
       /\ \A name \in DOMAIN req.headers :
             lower(name) \in PROXIED_REQUEST_HEADERS => name \in DOMAIN upstream.headers

C5_Witness ==
    /\ req.endpoint = "create_iterator"
    /\ upstream.gets = 1
    /\ DOMAIN req.headers = {H_FOO, H_Range_mixed}
    /\ DOMAIN upstream.headers = {H_Range_mixed}
    /\ upstream.headers[H_Range_mixed] = V_bytes

\* get_resource answered the request with a resource of this kind
Resolved(kind) ==
    /\ req.endpoint = "resources"
    /\ lookups # <<>>
    /\ lookups[1].op = "get_resource"
    /\ lookups[1].result.kind = kind

\* the resource get_resource answered with
TheResource == lookups[1].result

\* If-None-Match of the request, None when it has none
IfNoneMatch == Get(req.headers, H_if_none_match)

\* the ETag of the texts of the model: the first 12 hexadecimal digits of
\* the SHA-256 of the text, in double quotes
C6_EtagOf(text) ==
    IF text = T_metadata
    THEN <<"\"", "4", "5", "4", "4", "7", "b", "7", "a", "f", "b", "d", "5", "\"">>
    ELSE <<"\"", "d", "9", "2", "9", "8", "a", "1", "0", "d", "1", "b", "0", "\"">>

\* C6: for a TextResource the response carries the ETag of the text, is 304
\* without a body exactly when If-None-Match equals that ETag, and is
\* otherwise 200 with the text as text/plain.
C6_TextResourceEtag ==
    (pc = "done" /\ Resolved("TextResource"))
    => /\ DOMAIN resp.headers = {H_ETag}
       /\ resp.headers[H_ETag] = C6_EtagOf(TheResource.text)
       /\ resp.status = 304 <=> IfNoneMatch = C6_EtagOf(TheResource.text)
       /\ resp.status = 304 => resp.body = NoBody
       /\ resp.status # 304
          => /\ resp.status = 200
             /\ resp.media_type = M_text_plain
             /\ resp.body = [kind |-> "text", data |-> TheResource.text]

C6_Witness ==
    /\ pc = "done"
    /\ Resolved("TextResource")
    /\ TheResource.text = T_metadata
    /\ IfNoneMatch = C6_EtagOf(T_metadata)
    /\ resp.status = 304
    /\ resp.headers[H_ETag] = C6_EtagOf(T_metadata)

\* the ETag of the context of the LocalResource, None when it has none
CtxEtag == Get(TheResource.context, K_etag)

\* C7: for a LocalResource the ETag is the one of the resource's context;
\* the response is 304 exactly when the context has an ETag and
\* If-None-Match equals it, and is otherwise the file, 200, as
\* application/octet-stream; it carries the ETag header exactly when the
\* context has an ETag; without one it is 200 whatever If-None-Match is.
C7_LocalResourceEtag ==
    (pc = "done" /\ Resolved("LocalResource"))
    => /\ resp.status = 304 <=> (CtxEtag # None /\ IfNoneMatch = CtxEtag)
       /\ resp.status = 304 => resp.body = NoBody
       /\ resp.status # 304
          => /\ resp.status = 200
             /\ resp.media_type = M_octet
             /\ resp.body = [kind |-> "file", data |-> TheResource.path]
       /\ CtxEtag # None
          => (DOMAIN resp.headers = {H_ETag} /\ resp.headers[H_ETag] = CtxEtag)
       /\ CtxEtag = None => (resp.status = 200 /\ DOMAIN resp.headers = {})

C7_Witness ==
    /\ pc = "done"
    /\ Resolved("LocalResource")
    /\ CtxEtag = None
    /\ IfNoneMatch = E_1
    /\ resp.status = 200
    /\ DOMAIN resp.headers = {}

\* the concatenation of the chunks
RECURSIVE Concat(_)
Concat(chunks) == IF chunks = <<>> THEN <<>> ELSE Head(chunks) \o Concat(Tail(chunks))

\* the request without its If-None-Match header
WithoutIfNoneMatch(request) ==
    [request EXCEPT !.headers = Restrict(request.headers,
                                         (DOMAIN request.headers) \ {H_if_none_match})]

\* the upstream server's answer to the request, had it had no If-None-Match
AnswerWithoutIfNoneMatch ==
    UpstreamGet(TheResource.url, StreamRequestHeaders(WithoutIfNoneMatch(req)),
                upstream.variant).answer

\* C8 (as amended): the router itself never evaluates If-None-Match for an
\* HttpResource.  In redirect mode the response is the 302 to the resource's
\* URL whatever If-None-Match is.  In stream mode If-None-Match is forwarded
\* to the upstream server as it came, and the response is the upstream
\* server's answer: it is 304 only when the upstream server answered 304.
C8_HttpNotConditionalHere ==
    (pc \in {"streaming", "done"} /\ Resolved("HttpResource") /\ resp.status # 500)
    => /\ ~stream_http_resources
          => /\ resp = RedirectResponse(TheResource.url, 302)
             /\ upstream.gets = 0
       /\ stream_http_resources
          => /\ Get(upstream.headers, H_if_none_match) = IfNoneMatch
             /\ resp.status = upstream.answer.status
             /\ resp.headers = upstream.answer.headers
       /\ resp.status = 304 => (stream_http_resources /\ upstream.answer.status = 304)

C8_Witness ==
    /\ pc = "done"
    /\ Resolved("HttpResource")
    /\ stream_http_resources
    /\ IfNoneMatch = E_1
    /\ upstream.variant.etag = E_1
    /\ resp.status = 304
    /\ delivered = <<>>

\* C8 as stated: for an HttpResource, in redirect mode and in stream mode,
\* the response is what it would be without the If-None-Match header.
C8_Original ==
    (pc = "done" /\ Resolved("HttpResource") /\ resp.status # 500
        /\ (stream_http_resources => it.state = "exhausted"))
    => IF stream_http_resources
       THEN /\ resp.status = AnswerWithoutIfNoneMatch.status
            /\ resp.headers = AnswerWithoutIfNoneMatch.headers
            /\ Concat(delivered) = AnswerWithoutIfNoneMatch.wire
       ELSE resp = RedirectResponse(TheResource.url, 302)

\* C9: in redirect mode every request that resolves to an HttpResource is
\* answered 302 with the resource's URL as Location, and no upstream GET is
\* issued and no iterator made; and no step changes the mode.
C9_RedirectMode ==
    /\ []((pc = "done" /\ Resolved("HttpResource") /\ ~stream_http_resources)
          => /\ resp.status = 302
             /\ DOMAIN resp.headers = {H_location}
             /\ resp.headers[H_location] = TheResource.url
             /\ resp.body = NoBody
             /\ upstream.gets = 0
             /\ it = NoIterator)
    /\ [][stream_http_resources' = stream_http_resources]_vars

C9_Witness ==
    /\ pc = "done"
    /\ Resolved("HttpResource")
    /\ ~stream_http_resources
    /\ IfNoneMatch = E_1
    /\ resp.status = 302
    /\ resp.headers[H_location] = U_my_url

\* C10: in stream mode the response to a request that resolves to an
\* HttpResource has the upstream status and every upstream header with its
\* value; the chunks delivered so far and the bytes still to come are the
\* upstream body as it is on the wire, so that once the body is exhausted
\* the chunks are the body: content-length is its length and the content
\* is still in the encoding that content-encoding names.
C10_StreamMirrorsUpstream ==
    (pc \in {"streaming", "done"} /\ Resolved("HttpResource") /\ stream_http_resources
        /\ it.state # "none")
    => /\ resp.status = upstream.answer.status
       /\ \A name \in DOMAIN upstream.answer.headers :
             /\ name \in DOMAIN resp.headers
             /\ resp.headers[name] = upstream.answer.headers[name]
       /\ it.state = "open" => Concat(delivered) \o it.remaining = upstream.answer.wire
       /\ it.state = "exhausted"
          => /\ Concat(delivered) = upstream.answer.wire
             /\ H_content_length \in DOMAIN resp.headers
                => resp.headers[H_content_length] = Str(Len(Concat(delivered)))
             /\ resp.status # 304
                => Decode(upstream.variant.encoding, Concat(delivered))
                   = upstream.variant.content

C10_Witness ==
    /\ pc = "done"
    /\ Resolved("HttpResource")
    /\ stream_http_resources
    /\ it.state = "exhausted"
    /\ upstream.variant.encoding = Gzip
    /\ resp.status = 200
    /\ resp.headers[H_content_encoding] = Gzip
    /\ Len(delivered) >= 2
    /\ Concat(delivered) = <<0>> \o upstream.variant.content

\* the iterator create_iterator returned is open, or was
Returned == it.state # "none"

\* C11: when create_iterator has returned, status_code and headers are the
\* upstream response's, and the response of the resources endpoint is built
\* from them; before the first pull of the consumer nothing of the body is
\* read or delivered; no delivered chunk is the empty sentinel; and a chunk
\* is delivered only by an iterator whose status_code and headers are set.
C11_HeadersBeforeBody ==
    /\ [](Returned
          => /\ it.status_code = upstream.answer.status
             /\ it.status_code # 0
             /\ it.headers = upstream.answer.headers
             /\ req.endpoint = "resources"
                => (resp.status = it.status_code /\ resp.headers = it.headers)
             /\ it.pulls = 0
                => /\ it.reads = 0
                   /\ delivered = <<>>
                   /\ it.remaining = upstream.answer.wire
             /\ \A i \in DOMAIN delivered : delivered[i] # <<>>)
    /\ [][delivered' # delivered /\ delivered' # <<>>
          => /\ it.state = "open"
             /\ it.status_code = upstream.answer.status
             /\ it.headers = upstream.answer.headers]_vars

C11_Witness ==
    /\ pc = "streaming"
    /\ req.endpoint = "resources"
    /\ it.state = "open"
    /\ it.pulls = 0
    /\ it.status_code = 201
    /\ resp.status = 201
    /\ H_my_header \in DOMAIN it.headers
    /\ Len(it.remaining) = MaxBody
    /\ delivered = <<>>

\* the sequence of the iterator has ended
Ended == it.state \in {"exhausted", "failed"}

\* C12: after create_iterator has returned, a chunk is read from upstream
\* only by a pull of the consumer (never more chunks read than pulls made),
\* the chunks delivered are the chunks read, in upstream order and each
\* once (with what is still to come they are the upstream body), the
\* sequence is no longer than the body, one upstream GET is issued, and a
\* pull after the end changes neither the state of the iterator nor what
\* was delivered nor the upstream request.
C12_LazyForwardOnly ==
    /\ [](Returned
          => /\ it.reads <= it.pulls
             /\ Len(delivered) = it.reads
             /\ it.reads <= Len(upstream.answer.wire)
             /\ upstream.gets = 1
             /\ it.state = "open"
                => Concat(delivered) \o it.remaining = upstream.answer.wire
             /\ Ended
                => Concat(delivered)
                   = SubSeq(upstream.answer.wire, 1, Len(Concat(delivered))))
    /\ [][(Ended /\ it'.state # "none")
          => /\ it'.state = it.state
             /\ it'.remaining = it.remaining
             /\ it'.pulls = it.pulls + 1
             /\ delivered' = delivered
             /\ upstream' = upstream]_vars

C12_Witness ==
    /\ it.state = "exhausted"
    /\ it.reads = 2
    /\ it.pulls = it.reads + 1 + MaxRepulls
    /\ Concat(delivered) = upstream.answer.wire
    /\ Len(upstream.answer.wire) > ChunkSize
    /\ upstream.gets = 1

\* the consumer of the iterator is gone for good
ConsumerGone == it.state \in {"exhausted", "failed", "cancelled", "abandoned", "closed"}

\* C13 as stated: an iterator holds one upstream connection, and in no
\* state is the consumer gone for good while the connection is still held.
C13_ReleasedWhenConsumerGone ==
    /\ Returned => upstream.gets = 1
    /\ ConsumerGone => it.conn # "held"

\* the upstream GET failed before the response headers arrived
GetFaulted == upstream.gets = 1 /\ upstream.answer = NoAnswer

\* C14: when the upstream GET fails before the headers arrive, no iterator
\* is returned, no connection is held, nothing is delivered and the call is
\* over; the resources endpoint builds no response from an upstream status:
\* the request ends in a server error.
C14_ConnectFaultPropagates ==
    GetFaulted
    => /\ it = NoIterator
       /\ it.conn # "held"
       /\ delivered = <<>>
       /\ pc = "done"
       /\ req.endpoint = "resources"
          => /\ resp = ServerError("ConnectError")
             /\ resp.status = 500
             /\ Resolved("HttpResource")
       /\ req.endpoint = "create_iterator" => resp = NoResponse

C14_Witness ==
    /\ GetFaulted
    /\ req.endpoint = "resources"
    /\ stream_http_resources
    /\ upstream.url = U_my_url
    /\ H_if_none_match \in DOMAIN upstream.headers
    /\ resp.status = 500
    /\ it = NoIterator

\* s is a prefix of t, and shorter
IsStrictPrefix(s, t) == Len(s) < Len(t) /\ s = SubSeq(t, 1, Len(s))

\* C15: a fault while the body is read ends the sequence early: what was
\* delivered is a prefix of the upstream body and shorter than it, the
\* status and the headers already exposed stay the upstream's, the response
\* is not changed by the fault, the connection is released, and the end is
\* not the end of an exhausted body (which is reached with the whole body
\* only).
C15_ReadFaultTruncates ==
    /\ [](it.state = "failed"
          => /\ IsStrictPrefix(Concat(delivered), upstream.answer.wire)
             /\ it.status_code = upstream.answer.status
             /\ it.headers = upstream.answer.headers
             /\ it.conn = "released"
             /\ pc = "done"
             /\ req.endpoint = "resources"
                => (resp.status = upstream.answer.status
                    /\ resp.headers = upstream.answer.headers))
    /\ [](it.state = "exhausted" => Concat(delivered) = upstream.answer.wire)
    /\ [][(it.state = "open" /\ it'.state = "failed")
          => /\ resp' = resp
             /\ delivered' = delivered
             /\ it'.status_code = it.status_code
             /\ it'.headers = it.headers
             /\ it'.remaining = it.remaining]_vars

C15_Witness ==
    /\ it.state = "failed"
    /\ req.endpoint = "resources"
    /\ resp.status = 201
    /\ Len(delivered) = 1
    /\ delivered[1] = SubSeq(upstream.answer.wire, 1, ChunkSize)
    /\ it.remaining # <<>>
    /\ it.conn = "released"

\* the directory segments of a path: its "/"-separated segments but the
\* leading empty one and the final one
DirSegments(path) ==
    [i \in 1..(Len(split(path, "/")) - 2) |-> split(path, "/")[i + 1]]

\* the length of the longest common prefix of two lists
LongestCommon(ds, os) ==
    CHOOSE k \in 0..Len(ds) :
        /\ k <= Len(os)
        /\ \A i \in 1..k : ds[i] = os[i]
        /\ (k < Len(ds) /\ k < Len(os)) => ds[k + 1] # os[k + 1]

\* the segments from the one at index `from` on, joined with "/"
RECURSIVE JoinFrom(_, _)
JoinFrom(segments, from) ==
    IF from > Len(segments) THEN <<>>
    ELSE IF from = Len(segments) THEN segments[from]
    ELSE segments[from] \o <<"/">> \o JoinFrom(segments, from + 1)

\* N copies of "../" and the destination path without its matched directories
ExpectedRelative(dpath, opath) ==
    Repeat(<<".", ".", "/">>,
           Len(DirSegments(opath)) - LongestCommon(DirSegments(dpath), DirSegments(opath)))
    \o JoinFrom(split(dpath, "/"), LongestCommon(DirSegments(dpath), DirSegments(opath)) + 2)

\* url_as_relative was applied to (destination, origin)
Relativized == call.fn = "url_as_relative" /\ call.step = 1

\* both URLs are http(s) URLs of one scheme and one network location
SameOrigin ==
    /\ urlparse(call.args[1]).scheme \in {<<"h", "t", "t", "p">>, <<"h", "t", "t", "p", "s">>}
    /\ urlparse(call.args[1]).scheme = urlparse(call.args[2]).scheme
    /\ urlparse(call.args[1]).netloc # <<>>
    /\ urlparse(call.args[1]).netloc = urlparse(call.args[2]).netloc

\* "https://h" and a path
OnH(path) == <<"h", "t", "t", "p", "s", ":", "/", "/", "h">> \o path

\* the rows of the literal table, the names cut to one letter:
\* origin, destination, expected result
C16_Table ==
    {<<OnH(<<"/", "a", "/", "b", "/">>), OnH(<<"/", "b", "/", "b", "/", "c">>),
       <<".", ".", "/", ".", ".", "/", "b", "/", "b", "/", "c">>>>,
     <<OnH(<<"/", "a", "/", "b", "/">>), OnH(<<"/", "a", "/", "a", "/">>),
       <<".", ".", "/", "a", "/">>>>,
     <<OnH(<<"/", "a", "/", "c">>), OnH(<<"/", "a", "/", "a">>), <<"a">>>>,
     <<OnH(<<"/", "a", "/">>), OnH(<<"/", "a", "/", "b", "/">>), <<"b", "/">>>>,
     <<OnH(<<"/", "a", "/">>), OnH(<<"/", "a", "/">>), <<>>>>,
     <<OnH(<<"/", "a">>), OnH(<<"/", "a">>), <<"a">>>>,
     <<OnH(<<"/", "a">>), OnH(<<"/", "a", "/">>), <<"a", "/">>>>,
     <<OnH(<<"/", "a", "/">>), OnH(<<"/", "a">>), <<".", ".", "/", "a">>>>,
     <<OnH(<<"/", "a", "/", "b", "/", "c">>), OnH(<<"/", "a", "/">>), <<".", ".", "/">>>>}

\* C16: for http(s) URLs of one scheme and one network location,
\* url_as_relative(destination, origin) is N copies of "../" followed by the
\* destination path without its matched directory prefix, N being the number
\* of directory segments of the origin less the length of the longest common
\* prefix of the two lists of directory segments; and it gives the result
\* of every row of the literal table.
C16_RelativePathFormula ==
    Relativized
    => /\ SameOrigin
          => /\ call.result.ok
             /\ call.result.value = ExpectedRelative(urlparse(call.args[1]).path,
                                                     urlparse(call.args[2]).path)
       /\ \A row \in C16_Table :
             (call.args[2] = row[1] /\ call.args[1] = row[2])
             => (call.result.ok /\ call.result.value = row[3])

C16_Witness ==
    /\ Relativized
    /\ call.args[2] = OnH(<<"/", "a", "/", "b", "/", "c">>)
    /\ call.args[1] = OnH(<<"/", "a", "/">>)
    /\ call.result = [ok |-> TRUE, value |-> <<".", ".", "/">>]

\* an absolute URL opens with a scheme and "://"
IsAbsoluteUrl(url) ==
    \E c \in DOMAIN url :
        /\ c > 1
        /\ \A j \in 1..(c - 1) : url[j] \in SchemeChars
        /\ c + 2 <= Len(url)
        /\ SubSeq(url, c, c + 2) = SchemeSep

\* host and port of a network location "host" or "host:port"
HostOf(netloc) == Before(netloc, IndexOf(netloc, {":"}))
PortOf(netloc) == After(netloc, IndexOf(netloc, {":"}))

\* the two URLs differ in scheme, in host or in port
DiffersInOrigin(a, b) ==
    \/ urlparse(a).scheme # urlparse(b).scheme
    \/ HostOf(urlparse(a).netloc) # HostOf(urlparse(b).netloc)
    \/ PortOf(urlparse(a).netloc) # PortOf(urlparse(b).netloc)

\* url_as_relative raised its ValueError, the message naming origin and destination
RaisedValueError ==
    /\ ~call.result.ok
    /\ call.result.value = <<call.args[2], call.args[1]>>

\* C17: url_as_relative raises a ValueError naming the origin and the
\* destination for every pair that differs in scheme, in host or in port
\* and for every pair with an input that is not an absolute URL; it returns
\* no relative path for such a pair.
C17_InvalidPairsRaise ==
    (/\ Relativized
     /\ \/ DiffersInOrigin(call.args[1], call.args[2])
        \/ ~IsAbsoluteUrl(call.args[1])
        \/ ~IsAbsoluteUrl(call.args[2]))
    => RaisedValueError

\* the cross-port pair: https://h:81/a against https://h/a
C17_Witness ==
    /\ Relativized
    /\ call.args[1] = <<"h", "t", "t", "p", "s", ":", "/", "/", "h", ":", "8", "1", "/", "a">>
    /\ call.args[2] = OnH(<<"/", "a">>)
    /\ RaisedValueError

(***************************************************************************)
(* Standard URL joining, urllib.parse.urljoin(base, url), for a url that   *)
(* is a relative path (no scheme, no netloc, no query), which is what      *)
(* url_as_relative returns: RFC 3986 section 5.2.                          *)
(***************************************************************************)
\* the segments of the base path without its final, non-empty, segment
BaseParts(bpath) ==
    IF split(bpath, "/")[Len(split(bpath, "/"))] # <<>>
    THEN SubSeq(split(bpath, "/"), 1, Len(split(bpath, "/")) - 1)
    ELSE split(bpath, "/")

\* segments[1:-1] = filter(None, segments[1:-1])
DropEmptyInner(segments) ==
    IF Len(segments) <= 2 THEN segments
    ELSE <<segments[1]>>
         \o SelectSeq(SubSeq(segments, 2, Len(segments) - 1), LAMBDA seg : seg # <<>>)
         \o <<segments[Len(segments)]>>

\* the dot segments removed, left to right
RECURSIVE RemoveDots(_, _)
RemoveDots(segments, resolved) ==
    IF segments = <<>> THEN resolved
    ELSE IF Head(segments) = <<".", ".">>
    THEN RemoveDots(Tail(segments),
                    IF resolved = <<>> THEN <<>> ELSE SubSeq(resolved, 1, Len(resolved) - 1))
    ELSE IF Head(segments) = <<".">> THEN RemoveDots(Tail(segments), resolved)
    ELSE RemoveDots(Tail(segments), Append(resolved, Head(segments)))

ResolvedSegments(segments) ==
    IF segments[Len(segments)] \in {<<".">>, <<".", ".">>}
    THEN Append(RemoveDots(segments, <<>>), <<>>)
    ELSE RemoveDots(segments, <<>>)

\* "/".join(resolved_path) or "/", and the "/" urlunparse puts before a
\* path that follows a netloc
JoinedPath(resolved) ==
    IF JoinFrom(resolved, 1) = <<>> THEN <<"/">>
    ELSE IF JoinFrom(resolved, 1)[1] # "/" THEN <<"/">> \o JoinFrom(resolved, 1)
    ELSE JoinFrom(resolved, 1)

MergedSegments(bpath, path) ==
    IF path[1] = "/" THEN split(path, "/")
    ELSE DropEmptyInner(BaseParts(bpath) \o split(path, "/"))

urljoin(base, url) ==
    IF url = <<>> THEN base
    ELSE urlparse(base).scheme \o SchemeSep \o urlparse(base).netloc
         \o JoinedPath(ResolvedSegments(MergedSegments(urlparse(base).path, url)))

\* two absolute URLs of one scheme and one host
SameSchemeAndHost(a, b) ==
    /\ IsAbsoluteUrl(a)
    /\ IsAbsoluteUrl(b)
    /\ urlparse(a).scheme = urlparse(b).scheme
    /\ HostOf(urlparse(a).netloc) = HostOf(urlparse(b).netloc)

\* C18: for an origin and a destination of one scheme and one host,
\* joining url_as_relative(destination, origin) to the origin gives the
\* destination back.
C18_JoinGivesDestinationBack ==
    (Relativized /\ SameSchemeAndHost(call.args[1], call.args[2]))
    => /\ call.result.ok
       /\ urljoin(call.args[2], call.result.value) = call.args[1]

\* canonicalize_name was applied to a name; and to its own result
Canonicalized == call.fn = "canonicalize_name" /\ call.step >= 1
CanonicalizedTwice == call.fn = "canonicalize_name" /\ call.step = 2

\* C19: canonicalize_name is idempotent, its result is the lowercased name
\* with every run of "-", "_", "." collapsed to one "-", and a name is in
\* canonical form exactly when canonicalize_name leaves it unchanged.
C19_CanonicalizeIdempotent ==
    /\ CanonicalizedTwice => call.again.value = call.result.value
    /\ Canonicalized
       => /\ IsCanonicalForm(call.result.value)
          /\ IsCanonicalForm(call.args[1]) <=> (call.result.value = call.args[1])

\* "B_." becomes "b-", and "b-" stays "b-"
C19_Witness ==
    /\ CanonicalizedTwice
    /\ call.args[1] = <<"B", "_", ".">>
    /\ call.result.value = <<"b", "-">>
    /\ call.again.value = <<"b", "-">>

\* the list or the detail handler, or the dependency before it, has answered
PageHandled == Handled("project_list") \/ Handled("simple_project_page")

\* the request has a format query parameter with a value
Overridden == FormatParam(req.query) \notin {None, <<>>}

\* the override as the client wrote it after "format="
OverrideWritten == removeprefix(req.query, Q_format_eq)

\* C20: when a format query parameter is supplied, the negotiation is on
\* its value alone, the spaces turned back into "+": the request is refused
\* with 406 exactly when that value names no supported format, and a page
\* is served with the format that value selects as its Content-Type,
\* whatever the Accept header is.
C20_OverrideReplacesAccept ==
    (PageHandled /\ Overridden)
    => /\ replace(FormatParam(req.query), " ", "+") = OverrideWritten
       /\ resp.status = 406 <=> ~select_response_format(OverrideWritten).ok
       /\ resp.status = 200
          => resp.media_type = select_response_format(OverrideWritten).value
       /\ OverrideWritten = F_json_v1 => resp.status # 406
       /\ OverrideWritten = A_pizza => resp.status = 406

\* format=application/vnd.pypi.simple.v1+json with Accept: pizza/margherita
C20_Witness ==
    /\ PageHandled
    /\ OverrideWritten = F_json_v1
    /\ req.query = Q_format_eq \o F_json_v1
    /\ Get(req.headers, H_accept) = A_pizza
    /\ resp.status = 200
    /\ resp.media_type = F_json_v1

\* the request has no format override
NoOverride == FormatParam(req.query) \in {None, <<>>}

\* the Accept header is absent, empty or "*/*"
DefaultAccept == Get(req.headers, H_accept) \in {None, <<>>, A_any}

\* the backend answered get_project_page with a page
PageFound ==
    /\ lookups # <<>>
    /\ lookups[1].op = "get_project_page"
    /\ lookups[1].result.kind = "ProjectDetail"

\* C21: with no format override and an Accept header that is absent, empty
\* or "*/*", the list and the detail endpoint negotiate the HTML v1 format:
\* the request is never refused, the list is served 200 in HTML v1, and so is
\* the page of a canonical name the backend knows.  In every 200 response of
\* the two endpoints the Content-Type, and the format of the serialized
\* body, is the format the negotiation selected.
C21_DefaultIsHtmlV1 ==
    /\ (PageHandled /\ NoOverride /\ DefaultAccept)
       => /\ resp.status # 406
          /\ Handled("project_list") => resp.status = 200
          /\ (Handled("simple_project_page") /\ PageFound) => resp.status = 200
          /\ resp.status = 200 => resp.media_type = F_html_v1
    /\ (PageHandled /\ resp.status = 200)
       => /\ Negotiable
          /\ resp.media_type = get_response_format(req).value
          /\ resp.body.data.format = resp.media_type

\* an empty Accept header on the list endpoint
C21_Witness ==
    /\ Handled("project_list")
    /\ req.query = <<>>
    /\ Get(req.headers, H_accept) = <<>>
    /\ resp.status = 200
    /\ resp.media_type = F_html_v1

\* the value the negotiation is on: the format override if the request
\* has one, else the Accept header, "" when it has none
EffectiveValue ==
    IF ~NoOverride THEN OverrideWritten
    ELSE IF Get(req.headers, H_accept) = None THEN <<>>
    ELSE Get(req.headers, H_accept)

\* the value names candidates and none of them is a supported format or "*/*"
NoCandidateSupported ==
    /\ EffectiveValue # <<>>
    /\ \A i \in DOMAIN MediaRanges(EffectiveValue) :
          MediaRanges(EffectiveValue)[i] \notin SupportedFormats \cup {A_any}

\* C22: when no candidate media range of the effective negotiation value
\* is a supported format, the list and the detail endpoint answer 406, with
\* no page in the body and no backend operation called; and they answer
\* 406 in no other case.
C22_UnsupportedIs406 ==
    PageHandled
    => /\ NoCandidateSupported
          => /\ resp.status = 406
             /\ resp.body.kind \notin {"list", "page"}
             /\ lookups = <<>>
       /\ resp.status = 406 => NoCandidateSupported

\* Accept: pizza/margherita on the detail endpoint
C22_Witness ==
    /\ Handled("simple_project_page")
    /\ req.query = <<>>
    /\ Get(req.headers, H_accept) = A_pizza
    /\ resp.status = 406
    /\ lookups = <<>>

\* the backend operation of the request failed with the error `kind`
Failed(op, kind) ==
    /\ lookups # <<>>
    /\ lookups[1].op = op
    /\ lookups[1].result.kind = kind

\* the response is an error with the message as its body: no page, no
\* resource content, no validator, no redirect and no upstream request
OnlyMessage(message) ==
    /\ resp.body = [kind |-> "detail", data |-> message]
    /\ resp.headers = EmptyDict
    /\ upstream = NoUpstream
    /\ it = NoIterator
    /\ delivered = <<>>

\* C23: PackageNotFoundError of get_project_page is answered 404,
\* ResourceUnavailable of get_resource 404 and InvalidPackageError of
\* get_resource 502, each with the message of the error as the body and
\* nothing else served; and a response of the two handlers that carries a
\* message with 404 or 502 comes from the error of that status.
C23_BackendFailureStatus ==
    /\ (Handled("simple_project_page") /\ Failed("get_project_page", "PackageNotFoundError"))
       => /\ resp.status = 404
          /\ lookups[1].result.name = req.project_name
          /\ OnlyMessage(req.project_name)
    /\ (Handled("resources") /\ Failed("get_resource", "ResourceUnavailable"))
       => (resp.status = 404 /\ OnlyMessage(lookups[1].result.text))
    /\ (Handled("resources") /\ Failed("get_resource", "InvalidPackageError"))
       => (resp.status = 502 /\ OnlyMessage(lookups[1].result.text))
    /\ (Handled("simple_project_page") /\ resp.status = 404)
       => Failed("get_project_page", "PackageNotFoundError")
    /\ (Handled("resources") /\ resp.body.kind = "detail" /\ resp.status = 404)
       => Failed("get_resource", "ResourceUnavailable")
    /\ (Handled("resources") /\ resp.body.kind = "detail" /\ resp.status = 502)
       => Failed("get_resource", "InvalidPackageError")

\* get_resource raised InvalidPackageError
C23_Witness ==
    /\ Handled("resources")
    /\ Failed("get_resource", "InvalidPackageError")
    /\ resp.status = 502
    /\ resp.body.data = ErrorText

\* the page served and the page get_project_page answered with
ServedPage == resp.body.data.page
BackendPage == lookups[1].result

PageServed == Handled("simple_project_page") /\ resp.status = 200

\* "../../resources/<project name>/<filename>": from the page of the project
\* up to the mount point and down the resources route
PageRelative(project_name, filename) ==
    <<".", ".", "/", ".", ".", "/", "r", "e", "s", "o", "u", "r", "c", "e", "s", "/">>
    \o project_name \o <<"/">> \o filename

\* C24: the page served is the page of the backend with the same files in
\* the same order, filename, hashes and size of each unchanged, and the url
\* of each replaced by the path of the resources route for the project name
\* and the filename relative to the request URL: a relative reference that
\* resolves against the request URL to that route, whatever the URL of the
\* backend was.
C24_FileUrlsPageRelative ==
    PageServed
    => /\ [ServedPage EXCEPT !.files = BackendPage.files] = BackendPage
       /\ Len(ServedPage.files) = Len(BackendPage.files)
       /\ \A i \in DOMAIN ServedPage.files :
             /\ [ServedPage.files[i] EXCEPT !.url = BackendPage.files[i].url]
                = BackendPage.files[i]
             /\ ServedPage.files[i].url
                = PageRelative(req.project_name, ServedPage.files[i].filename)
             /\ ~IsAbsoluteUrl(ServedPage.files[i].url)
             /\ ServedPage.files[i].url[1] # "/"
             /\ urljoin(request_url(req, root_path), ServedPage.files[i].url)
                = url_for(root_path, "resources", req.project_name,
                          ServedPage.files[i].filename)

\* a page of two files, the second with an absolute URL at the backend,
\* served under a mount prefix
C24_Witness ==
    /\ PageServed
    /\ root_path = MountM
    /\ Len(BackendPage.files) = 2
    /\ BackendPage.files[2].url = U_my_url
    /\ ServedPage.files[2].url = PageRelative(req.project_name, ResourceName)
    /\ ServedPage.files[1].filename = <<"g">>

KnownVariants == {"TextResource", "LocalResource", "HttpResource"}

\* get_resource returned a value, and it is none of the three variants
UnknownVariant ==
    /\ lookups # <<>>
    /\ lookups[1].op = "get_resource"
    /\ lookups[1].result.kind \notin KnownVariants \cup {"ResourceUnavailable", "InvalidPackageError"}

\* C25: a value of get_resource that is no TextResource, LocalResource or
\* HttpResource makes the handler raise ValueError, in both modes: the
\* request ends in the server error, not in a 4xx, a 2xx or a 3xx, with
\* no content, no validator, no redirect and no upstream request; and the
\* handler raises it for no value of the three variants and for no error
\* of the backend.
C25_ClosedVariantSet ==
    Handled("resources")
    => /\ UnknownVariant
          => /\ resp = ServerError("ValueError")
             /\ resp.status \notin 200..499
             /\ upstream = NoUpstream
             /\ it = NoIterator
             /\ delivered = <<>>
       /\ resp.body = [kind |-> "error", data |-> "ValueError"] => UnknownVariant

C25_Witness ==
    /\ Handled("resources")
    /\ stream_http_resources
    /\ UnknownVariant
    /\ resp.status = 500

\* every backend operation called for the request was called on `repository`
ServedFrom(repository) ==
    \A i \in DOMAIN lookups : lookups[i].repository = repository

\* C26: with a repo_factory the list and the detail endpoint call the
\* backend operations on the repository the factory returned for the
\* request, the factory having been called with the request's value of the
\* path parameter of the prefix, and never on resource_repository; without
\* one they call them on resource_repository; the resources endpoint calls
\* get_resource on resource_repository in both cases.
C26_RepositoryByFactory ==
    /\ (PageHandled /\ repo_factory = "given")
       => /\ ServedFrom([from |-> "repo_factory", cutoff_date |-> req.cutoff_date])
          /\ req.cutoff_date \in CutoffDates
          /\ ~ \E i \in DOMAIN lookups : lookups[i].repository.from = "resource_repository"
    /\ (PageHandled /\ repo_factory = "none")
       => ServedFrom([from |-> "resource_repository", cutoff_date |-> <<>>])
    /\ Handled("resources")
       => /\ lookups # <<>>
          /\ ServedFrom([from |-> "resource_repository", cutoff_date |-> <<>>])
    /\ (PageHandled /\ resp.status = 200) => lookups # <<>>

\* the list served from the repository of the factory called with "2"
C26_Witness ==
    /\ Handled("project_list")
    /\ repo_factory = "given"
    /\ req.cutoff_date = <<"2">>
    /\ resp.status = 200
    /\ lookups[1].op = "get_project_list"
    /\ lookups[1].repository = [from |-> "repo_factory", cutoff_date |-> <<"2">>]

\* what a task has is what its request gets when it is handled alone: the
\* backend is asked about the task's own request, the upstream GET carries
\* the task's own headers, the response is the handler's response to the
\* task's own request and answers, the iterator is over the task's own
\* upstream answer, and the chunks delivered are those of that answer
AsIfAlone(task) ==
    /\ \A i \in DOMAIN task.lookups :
          /\ task.lookups[i].repository = resource_repository
          /\ task.req.endpoint = "resources"
             => /\ task.lookups[i].op = "get_resource"
                /\ task.lookups[i].project_name = task.req.project_name
                /\ task.lookups[i].resource_name = task.req.resource_name
                /\ task.lookups[i].request_context = RequestContext(task.req)
          /\ task.req.endpoint = "project_list" => task.lookups[i].op = "get_project_list"
    /\ task.pc \in {"idle", "received"}
       => /\ task.lookups = <<>>
          /\ task.resp = NoResponse
          /\ task.upstream = NoUpstream
          /\ task.it = NoIterator
          /\ task.delivered = <<>>
    /\ (task.pc = "done" /\ task.req.endpoint = "project_list")
       => /\ task.resp = ListResponse(get_response_format(task.req).value)
          /\ task.it = NoIterator
          /\ task.delivered = <<>>
    /\ (task.pc = "done" /\ task.req.endpoint = "resources"
          /\ task.lookups[1].result.kind # "HttpResource")
       => /\ task.resp = ResourceResponse(task.lookups[1].result, task.req)
          /\ task.upstream = NoUpstream
          /\ task.it = NoIterator
          /\ task.delivered = <<>>
    /\ (task.pc \in {"streaming", "done"} /\ task.req.endpoint = "resources"
          /\ task.lookups[1].result.kind = "HttpResource")
       => /\ task.upstream = UpstreamGet(task.lookups[1].result.url,
                                         StreamRequestHeaders(task.req),
                                         task.upstream.variant)
          /\ task.resp = StreamingResponse(IteratorOver(task.lookups[1].result.url,
                                                        task.upstream.answer))
          /\ task.it.url = task.lookups[1].result.url
          /\ task.it.status_code = task.upstream.answer.status
          /\ task.it.headers = task.upstream.answer.headers
          /\ Concat(task.delivered) \o task.it.remaining = BodyStream(task.upstream.answer)
          /\ task.pc = "streaming" <=> task.it.conn = "held"
          /\ task.pc = "done" => task.it.remaining = <<>>

\* C27: under every interleaving of two concurrently handled requests each
\* task has what its request gets when it is handled alone: its own
\* lookups, response, upstream request, iterator, connection and chunks.
C27_RequestsIndependent == AsIfAlone(Running) /\ AsIfAlone(other)

\* two streams at once, each with its own connection, the bodies different
\* and each partly delivered
C27_Witness ==
    /\ pc = "streaming"
    /\ other.pc = "streaming"
    /\ it.conn = "held"
    /\ other.it.conn = "held"
    /\ delivered # <<>>
    /\ other.delivered # <<>>
    /\ it.remaining # <<>>
    /\ BodyStream(upstream.answer) # BodyStream(other.upstream.answer)
    /\ req # other.req

\* get_netrc_path was called: the value of NETRC and the file system
NetrcAsked == call.fn = "get_netrc_path" /\ call.step = 1
NetrcEnv == call.args[1]
NetrcFs == call.args[2]

\* NETRC is set to something
NetrcSet == NetrcEnv \notin {None, <<>>}

\* a regular file is at the path
RegularFile(path) == path \in DOMAIN NetrcFs /\ NetrcFs[path] = "file"

\* C28: with NETRC set, get_netrc_path returns the path NETRC names when a
\* regular file is there and None when not, whatever is at ~/.netrc; with
\* NETRC not set (or empty) it returns ~/.netrc when a regular file is
\* there and None when not.
C28_NetrcPath ==
    NetrcAsked
    => /\ (NetrcSet /\ RegularFile(Path(NetrcEnv))) => call.result.value = Path(NetrcEnv)
       /\ (NetrcSet /\ ~RegularFile(Path(NetrcEnv))) => call.result.value = None
       /\ (~NetrcSet /\ RegularFile(HomeNetrc)) => call.result.value = HomeNetrc
       /\ (~NetrcSet /\ ~RegularFile(HomeNetrc)) => call.result.value = None

\* NETRC names a path with nothing there and ~/.netrc is a regular file
C28_Witness ==
    /\ NetrcAsked
    /\ NetrcEnv = EnvNetrc
    /\ NetrcFs[EnvNetrc] = "missing"
    /\ NetrcFs[HomeNetrc] = "file"
    /\ call.result.value = None

\* a handler is at work in a task: its request is received and its
\* response, the chunks of a stream included, is not complete
AtWork(task) == task.pc \in {"received", "streaming"}

\* the collaborators are created in order: no repository without a client,
\* no route without a repository, and no request before the routes
StartupOrdered ==
    /\ app.repo => app.http_client # "none"
    /\ app.routes => app.repo
    /\ (AtWork(Running) \/ AtWork(other)) => app.routes

\* the client is open while a handler is at work, and closed only once the
\* application has stopped
ClientOpenWhileHandling ==
    /\ (AtWork(Running) \/ AtWork(other)) => app.http_client = "open"
    /\ app.http_client = "closed" => app.phase = "stopped"

\* a step of a handler: it asks the repository, issues the upstream GET or
\* pulls a chunk
HandlerStep ==
    \/ ReceiveConcurrent
    \/ project_list
    \/ resources
    \/ resources_stream
    \/ anext_chunk
    \/ anext_stop

\* the client and the repository are made once: what exists stays the one
\* there is, and a closed client is not opened again
MadeOnce ==
    /\ app.http_client # "none" => app'.http_client # "none"
    /\ app.http_client = "closed" => app'.http_client = "closed"
    /\ app.repo => app'.repo
    /\ app.routes => app'.routes

ClientNames ==
    StringsUpTo({"a", "B", "-", "_", "."}, MaxNameLen + 1) \ {<<>>, <<".">>, <<".", ".">>}

ClientHeaders == {EmptyDict, (H_accept :> F_json_v1), (H_accept :> A_pizza)}

\* the project-detail requests of the client
ClientRequests ==
    {[Request("simple_project_page", n, <<>>, h, q) EXCEPT !.cutoff_date = d] :
        n \in ClientNames, h \in ClientHeaders, q \in Queries,
        d \in IF repo_factory = "none" THEN {<<>>} ELSE CutoffDates}

\* the URL of the next request: the path of the Location joined to the URL
\* of the request, and the query of the Location
NextUrl(url, location) ==
    urljoin(url, Before(location, IndexOf(location, {"?"})))
    \o From(location, IndexOf(location, {"?"}))

\* the segments of the prefix before its path parameters
PrefixHead ==
    IF repo_factory = "none" THEN <<<<>>, SubSeq(DefaultPrefix, 2, Len(DefaultPrefix) - 1)>>
    ELSE <<<<>>, SubSeq(SnapshotPrefix, 2, Len(SnapshotPrefix) - 1)>>

\* the number of path parameters of the prefix
PrefixParams == IF repo_factory = "none" THEN 0 ELSE 1

\* the router matches the path of url against prefix + "{project_name}/"
MatchesPage(segments) ==
    /\ Len(segments) = Len(PrefixHead) + PrefixParams + 2
    /\ SubSeq(segments, 1, Len(PrefixHead)) = PrefixHead
    /\ \A i \in (Len(PrefixHead) + 1)..(Len(segments) - 1) : segments[i] # <<>>
    /\ segments[Len(segments)] = <<>>

\* the request the server makes of url: the one of the project-detail
\* route, or one that no route of the router takes
Routed(url, mount, headers) ==
    LET segments == split(removeprefix(urlparse(url).path, mount), "/")
    IN  IF MatchesPage(segments)
        THEN [Request("simple_project_page", segments[Len(segments) - 1], <<>>, headers,
                      urlparse(url).query)
                 EXCEPT !.cutoff_date = IF PrefixParams = 0 THEN <<>>
                                        ELSE segments[Len(segments) - 2]]
        ELSE [NoRequest EXCEPT !.endpoint = "unrouted", !.headers = headers]

NotFoundText == <<"N", "o", "t", " ", "F", "o", "u", "n", "d">>

\* client.get(url): call counts the redirects the client followed
client_get ==
    /\ pc = "idle"
    /\ app.phase = "serving"
    /\ req' \in ClientRequests
    /\ call' = [NoCall EXCEPT !.fn = "get", !.args = <<req'>>]
    /\ pc' = "received"
    /\ UNCHANGED <<config, outside, lookups, resp, upstream, it, delivered>>

\* the client follows the redirect it was answered with; a URL that no
\* route takes is answered 404
follow_redirect ==
    /\ pc = "done"
    /\ call.fn = "get"
    /\ resp.status \in {301, 302}
    /\ call.step < MaxRedirects
    /\ req' = Routed(NextUrl(request_url(req, root_path), resp.headers[H_location]),
                     root_path, req.headers)
    /\ call' = [call EXCEPT !.step = call.step + 1]
    /\ resp' = IF req'.endpoint = "unrouted"
               THEN HTTPException(404, NotFoundText, EmptyDict)
               ELSE NoResponse
    /\ pc' = IF req'.endpoint = "unrouted" THEN "done" ELSE "received"
    /\ UNCHANGED <<config, outside, lookups, upstream, it, delivered>>

\* the call of the client returns: with the response that is no redirect,
\* or with TooManyRedirects
client_return ==
    /\ pc = "done"
    /\ call.fn = "get"
    /\ resp.status \notin {301, 302} \/ call.step = MaxRedirects
    /\ pc' = "idle"
    /\ call' = NoCall
    /\ req' = NoRequest
    /\ lookups' = <<>>
    /\ resp' = NoResponse
    /\ UNCHANGED <<config, outside, upstream, it, delivered>>

RedirectInit ==
    /\ stream_http_resources = FALSE
    /\ repo_factory \in {"none", "given"}
    /\ root_path \in RootPaths
    /\ other = NoTask
    /\ app = Serving
    /\ pc = "idle"
    /\ req = NoRequest
    /\ lookups = <<>>
    /\ resp = NoResponse
    /\ upstream = NoUpstream
    /\ it = NoIterator
    /\ delivered = <<>>
    /\ call = NoCall

RedirectNext ==
    \/ client_get
    \/ simple_project_page
    \/ follow_redirect
    \/ client_return

RedirectSpec == RedirectInit /\ [][RedirectNext]_vars

\* the client followed a redirect in this step
Followed == call.fn = "get" /\ call'.fn = "get" /\ call'.step = call.step + 1

\* the client's call came to its end with this response
ChainEnded == call.fn = "get" /\ pc = "done" /\ resp.status \notin {301, 302}

\* C30: the request a client sends when it follows the 301 of the
\* project-detail endpoint is one of that endpoint with a canonical project
\* name; it is not answered with a redirect again, so the client follows
\* at most one redirect, and the response it ends with is 200, 404 or 406.
C30_RedirectsTerminate ==
    /\ [][Followed => /\ req'.endpoint = "simple_project_page"
                      /\ req'.project_name = canonicalize_name(req.project_name)
                      /\ canonicalize_name(req'.project_name) = req'.project_name]_vars
    /\ [](call.fn = "get" => call.step <= 1)
    /\ []((call.fn = "get" /\ call.step = 1 /\ pc = "done") => resp.status \in {200, 404})
    /\ [](ChainEnded => resp.status \in {200, 404, 406})

\* the client asked for "B_." under the mount with a format override, was
\* redirected once and got the page of "b-"
C30_Witness ==
    /\ call.fn = "get"
    /\ call.args[1].project_name = <<"B", "_", ".">>
    /\ call.args[1].query # <<>>
    /\ root_path = MountM
    /\ call.step = 1
    /\ req.project_name = <<"b", "-">>
    /\ req.query = call.args[1].query
    /\ pc = "done"
    /\ resp.status = 200

====
